---- MODULE Spec2Model ----
(***************************************************************************)
(* Signal-denoising filters (median, adaptive LMS "Wiener", morphological, *)
(* outlier detection/interpolation, Savitzky-Golay) and the quality        *)
(* metrics (SNR, MSE, correlation) of digital_processing.                  *)
(*                                                                         *)
(* A double is modelled as an exact rational <<n, d>> in lowest terms with *)
(* d > 0, or as NaN.  A Signal (std::vector<double>) is a sequence of      *)
(* doubles; the C++ index i is the TLA+ index i + 1 (operator At).         *)
(***************************************************************************)
EXTENDS Integers, Sequences, FiniteSets, TLC

VARIABLES filter, last, adapted

vars == <<filter, last, adapted>>

(***************************************************************************)
(* Bounds of the model.                                                    *)
(***************************************************************************)
MaxLen == 4          \* longest signal of arbitrary samples given to a filter
MaxHalf == 2         \* window sizes are drawn from 0..2*MaxHalf+1
MaxElem == 4         \* flat structuring elements have 0..MaxElem entries
MaxShort == 3        \* longest signal given to a metric or to the adaptive filter
MaxPolyLen == 6      \* longest polynomial signal given to the Savitzky-Golay filter
MaxDegree == 3       \* highest degree of those polynomials
MaxOrder == 2        \* adaptive filter orders are drawn from 0..MaxOrder
MaxSamples == 4      \* samples one adaptive filter instance processes in all
SignificandBits == 4 \* significant bits of a double in the rounded arithmetic

(***************************************************************************)
(* Exact rational arithmetic standing for double arithmetic.               *)
(***************************************************************************)
Abs(n) == IF n < 0 THEN -n ELSE n

RECURSIVE GCD(_, _)
GCD(a, b) == IF b = 0 THEN a ELSE GCD(b, a % b)

Norm(n, d) ==
    LET s == IF d < 0 THEN -1 ELSE 1
        g == GCD(Abs(n), Abs(d))
    IN  IF n = 0 THEN <<0, 1>> ELSE <<(s * n) \div g, (s * d) \div g>>

R(n) == <<n, 1>>
Zero == R(0)
\* The double NaN (std::stod accepts "nan"): every arithmetic operation on
\* it yields NaN and every ordered comparison with it is false.
NaN == <<0, 0>>
IsNaN(a) == a[2] = 0
LCM(a, b) == (a \div GCD(a, b)) * b
\* Sums and comparisons go through the least common denominator and
\* products are cross-reduced first, which keeps the intermediate integers
\* as small as the operands allow.
RAdd(a, b) ==
    IF IsNaN(a) \/ IsNaN(b) THEN NaN
    ELSE LET d == LCM(a[2], b[2])
         IN  Norm(a[1] * (d \div a[2]) + b[1] * (d \div b[2]), d)
RNeg(a) == <<-a[1], a[2]>>
RSub(a, b) == RAdd(a, RNeg(b))
RMul(a, b) ==
    IF IsNaN(a) \/ IsNaN(b) THEN NaN
    ELSE IF a[1] = 0 \/ b[1] = 0 THEN <<0, 1>>
    ELSE LET g1 == GCD(Abs(a[1]), b[2])
             g2 == GCD(Abs(b[1]), a[2])
         IN  <<(a[1] \div g1) * (b[1] \div g2), (a[2] \div g2) * (b[2] \div g1)>>
RInv(a) == IF a[1] < 0 THEN <<-a[2], -a[1]>> ELSE <<a[2], a[1]>>
RDiv(a, b) ==
    IF IsNaN(a) \/ IsNaN(b) THEN NaN
    ELSE IF b[1] = 0 THEN Norm(a[1], 0) ELSE RMul(a, RInv(b))
RLt(a, b) ==
    /\ ~IsNaN(a)
    /\ ~IsNaN(b)
    /\ LET d == LCM(a[2], b[2])
       IN  a[1] * (d \div a[2]) < b[1] * (d \div b[2])
RLe(a, b) == ~IsNaN(a) /\ ~IsNaN(b) /\ ~RLt(b, a)
RAbs(a) == <<Abs(a[1]), a[2]>>
RMin(a, b) == IF RLt(b, a) THEN b ELSE a
RMax(a, b) == IF RLt(a, b) THEN b ELSE a

RECURSIVE RSum(_)
RSum(s) == IF s = <<>> THEN Zero ELSE RAdd(Head(s), RSum(Tail(s)))

\* |q| < 10^(-e) for e >= 0, without forming 10^e:
\* |n| * 10^e < d  <=>  |n| * 10^(e-1) < ceil(d / 10).
RECURSIVE LtPow10Neg(_, _, _)
LtPow10Neg(n, d, e) ==
    IF e = 0 THEN n < d ELSE LtPow10Neg(n, (d + 9) \div 10, e - 1)

At(s, i) == s[i + 1]
Size(s) == Len(s)
Min2(a, b) == IF a < b THEN a ELSE b
Fill(n, v) == [k \in 1..n |-> v]

(***************************************************************************)
(* Inputs.                                                                 *)
(***************************************************************************)
Vals == {R(0), R(1), R(2)}
SignalsOver(V, n) == UNION {[1..k -> V] : k \in 0..n}
ExampleMedian == <<R(1), R(2), R(100), R(2), R(1)>>
ExampleMAD == <<R(0), R(0), R(0), R(10), R(0), R(0), R(0)>>
ExampleAR == <<R(0), R(0), R(10), R(0), R(10), R(0), R(10), R(10)>>
ExampleCap == <<R(0), R(1), R(1), R(2), R(2), R(3), R(100)>>
Signals == SignalsOver(Vals, MaxLen) \cup {ExampleMedian, ExampleMAD, ExampleAR, ExampleCap}
WindowSizes == 0..(2 * MaxHalf + 1)
\* 13 has a half-window above the cap of interpolateMedian.
OutlierWindowSizes == WindowSizes \cup {13}

(***************************************************************************)
(* SignalProcessor helpers.                                                *)
(***************************************************************************)
\* std::sort followed by the middle element (mean of the two middle ones
\* for an even count); 0.0 for an empty vector.
median(values) ==
    LET sorted == SortSeq(values, RLt)
        size == Len(values)
    IN  IF size = 0 THEN Zero
        ELSE IF size % 2 = 0
             THEN RDiv(RAdd(At(sorted, size \div 2 - 1), At(sorted, size \div 2)), R(2))
             ELSE At(sorted, size \div 2)

(***************************************************************************)
(* MedianFilter.                                                           *)
(***************************************************************************)
IsValidWindowSize(windowSize) == windowSize # 0 /\ windowSize % 2 # 0

computeWindowMedian_truncated(input, index, windowSize) ==
    LET halfWindow == windowSize \div 2
        startIdx == IF index >= halfWindow THEN index - halfWindow ELSE 0
        endIdx == Min2(index + halfWindow + 1, Size(input))
    IN  median([k \in 1..(endIdx - startIdx) |-> At(input, startIdx + k - 1)])

computeWindowMedian_zeroPadded(input, index, windowSize) ==
    LET halfWindow == windowSize \div 2
        startIdx == IF index >= halfWindow THEN index - halfWindow ELSE 0
        endIdx == Min2(index + halfWindow + 1, Size(input))
        window == [k \in 1..(endIdx - startIdx) |-> At(input, startIdx + k - 1)]
        front == IF index < halfWindow THEN Fill(halfWindow - index, Zero) ELSE <<>>
        back == IF index + halfWindow >= Size(input)
                THEN Fill(index + halfWindow + 1 - Size(input), Zero)
                ELSE <<>>
    IN  median(front \o window \o back)

computeWindowMedian(input, index, windowSize) ==
    LET halfWindow == windowSize \div 2
        startIdx == IF index >= halfWindow THEN index - halfWindow ELSE 0
        endIdx == Min2(index + halfWindow + 1, Size(input))
        window == [k \in 1..(endIdx - startIdx) |-> At(input, startIdx + k - 1)]
        front == IF index < halfWindow
                 THEN Fill(halfWindow - index, At(input, 0))
                 ELSE <<>>
        back == IF index + halfWindow >= Size(input)
                THEN Fill(index + halfWindow + 1 - Size(input), At(input, Size(input) - 1))
                ELSE <<>>
    IN  median(front \o window \o back)

MedianFilter_process_dropsLast(f, input) ==
    IF input = <<>> THEN <<>>
    ELSE [k \in 1..(Size(input) - 1) |-> computeWindowMedian(input, k - 1, f.windowSize_)]

MedianFilter_process(f, input) ==
    IF input = <<>> THEN <<>>
    ELSE [k \in 1..Size(input) |-> computeWindowMedian(input, k - 1, f.windowSize_)]

\* [thrown |-> TRUE] stands for the std::invalid_argument.
MedianFilter_setWindowSize_assignsFirst(f, windowSize) ==
    [thrown |-> ~IsValidWindowSize(windowSize),
     filter |-> [f EXCEPT !.windowSize_ = windowSize]]

MedianFilter_setWindowSize(f, windowSize) ==
    IF ~IsValidWindowSize(windowSize) THEN [thrown |-> TRUE, filter |-> f]
    ELSE [thrown |-> FALSE, filter |-> [f EXCEPT !.windowSize_ = windowSize]]

(***************************************************************************)
(* MorphologicalFilter.                                                    *)
(***************************************************************************)
RMinSet(S) == CHOOSE m \in S : \A x \in S : RLe(m, x)
RMaxSet(S) == CHOOSE m \in S : \A x \in S : RLe(x, m)

createFlatElement(size) == Fill(size, Zero)

\* The in-bounds positions j of the element centred on sample i
\* (signalIndex = i - halfSize + j).
InBounds(input, structuringElement, i) ==
    LET halfSize == Size(structuringElement) \div 2
    IN  {j \in 0..(Size(structuringElement) - 1) :
            i - halfSize + j >= 0 /\ i - halfSize + j < Size(input)}

\* minVal starts at numeric_limits<double>::max() and is replaced by
\* input[i] when no position was in bounds.
erosion_fromCentre(input, structuringElement) ==
    LET halfSize == Size(structuringElement) \div 2
    IN  [k \in 1..Size(input) |->
            LET i == k - 1
                js == {j \in InBounds(input, structuringElement, i) : j > halfSize}
            IN  IF js = {} THEN At(input, i)
                ELSE RMinSet({RSub(At(input, i - halfSize + j), At(structuringElement, j)) :
                                j \in js})]

erosion(input, structuringElement) ==
    LET halfSize == Size(structuringElement) \div 2
    IN  [k \in 1..Size(input) |->
            LET i == k - 1
                js == InBounds(input, structuringElement, i)
            IN  IF js = {} THEN At(input, i)
                ELSE RMinSet({RSub(At(input, i - halfSize + j), At(structuringElement, j)) :
                                j \in js})]

dilation(input, structuringElement) ==
    LET halfSize == Size(structuringElement) \div 2
    IN  [k \in 1..Size(input) |->
            LET i == k - 1
                js == InBounds(input, structuringElement, i)
            IN  IF js = {} THEN At(input, i)
                ELSE RMaxSet({RAdd(At(input, i - halfSize + j), At(structuringElement, j)) :
                                j \in js})]

opening_dilationOnly(input, structuringElement) ==
    dilation(input, structuringElement)

opening(input, structuringElement) ==
    dilation(erosion(input, structuringElement), structuringElement)

closing(input, structuringElement) ==
    erosion(dilation(input, structuringElement), structuringElement)

MorphologicalFilter_process(f, input) ==
    IF input = <<>> THEN <<>>
    ELSE CASE f.operation_ = "EROSION" -> erosion(input, f.structuringElement_)
           [] f.operation_ = "DILATION" -> dilation(input, f.structuringElement_)
           [] f.operation_ = "OPENING" -> opening(input, f.structuringElement_)
           [] f.operation_ = "CLOSING" -> closing(input, f.structuringElement_)
           [] OTHER -> input

MorphologicalFilter_setOperation(f, operation) ==
    [thrown |-> FALSE, filter |-> [f EXCEPT !.operation_ = operation]]

MorphologicalFilter_setStructuringElement(f, structuringElement) ==
    IF structuringElement = <<>> THEN [thrown |-> TRUE, filter |-> f]
    ELSE [thrown |-> FALSE,
          filter |-> [f EXCEPT !.structuringElement_ = structuringElement]]

(***************************************************************************)
(* Quality metrics.                                                        *)
(*                                                                         *)
(* The guards compare a power with 1e-10.  Metric inputs are fixed-point   *)
(* samples counted in units of 10^-QuantumExp = sqrt(1e-10), so that a     *)
(* power q (in squared units) is below 1e-10 exactly when q < 1; this      *)
(* keeps values on both sides of the guards within the integers of the     *)
(* model.  SNR and correlation are dimensionless and are returned in real  *)
(* units; an MSE is returned in squared units.                             *)
(*                                                                         *)
(* A metric result is Value(q) for an exactly known double q, or a         *)
(* symbolic record for 10 * log10(a / b).                                  *)
(***************************************************************************)
EpsExp == 10                      \* the guards are 1e-EpsExp
QuantumExp == EpsExp \div 2
SnrSentinel == 100

BelowEps(q) == LtPow10Neg(Abs(q[1]), q[2], EpsExp - 2 * QuantumExp)

Value(q) == [kind |-> "value", a |-> q, b |-> R(1)]
Log10Ratio(sp, np) == [kind |-> "10log10", a |-> sp, b |-> np]
SqrtRatio(num, sq) == [kind |-> "over_sqrt", a |-> num, b |-> sq]

IsSquare(n) == \E r \in 0..n : r * r = n
ISqrt(n) == CHOOSE r \in 0..n : r * r = n

SquaredDiffs(x, y) == [k \in 1..Size(x) |-> RMul(RSub(x[k], y[k]), RSub(x[k], y[k]))]
Squares(x) == [k \in 1..Size(x) |-> RMul(x[k], x[k])]
Mean(x) == RDiv(RSum(x), R(Size(x)))

calculateSNR_sentinelOnMismatch(clean, noisy) ==
    IF Size(clean) # Size(noisy) \/ clean = <<>> THEN Value(R(SnrSentinel))
    ELSE LET signal_power == RDiv(RSum(Squares(clean)), R(Size(clean)))
             noise_power == RDiv(RSum(SquaredDiffs(noisy, clean)), R(Size(clean)))
         IN  IF BelowEps(noise_power) THEN Value(R(SnrSentinel))
             ELSE Log10Ratio(signal_power, noise_power)

calculateSNR_zeroNoiseOnly(clean, noisy) ==
    IF Size(clean) # Size(noisy) \/ clean = <<>> THEN Value(Zero)
    ELSE LET signal_power == RDiv(RSum(Squares(clean)), R(Size(clean)))
             noise_power == RDiv(RSum(SquaredDiffs(noisy, clean)), R(Size(clean)))
         IN  IF noise_power = Zero THEN Value(R(SnrSentinel))
             ELSE Log10Ratio(signal_power, noise_power)

calculateSNR(clean, noisy) ==
    IF Size(clean) # Size(noisy) \/ clean = <<>> THEN Value(Zero)
    ELSE LET signal_power == RDiv(RSum(Squares(clean)), R(Size(clean)))
             noise_power == RDiv(RSum(SquaredDiffs(noisy, clean)), R(Size(clean)))
         IN  IF BelowEps(noise_power) THEN Value(R(SnrSentinel))
             ELSE Log10Ratio(signal_power, noise_power)

calculateMSE(original, processed) ==
    IF Size(original) # Size(processed) \/ original = <<>> THEN Value(Zero)
    ELSE Value(RDiv(RSum(SquaredDiffs(original, processed)), R(Size(original))))

\* The sums of the loop of calculateCorrelation: numerator and
\* sum_sq1 * sum_sq2.
CorrelationSums(signal1, signal2) ==
    LET mean1 == Mean(signal1)
        mean2 == Mean(signal2)
        diff1 == [k \in 1..Size(signal1) |-> RSub(signal1[k], mean1)]
        diff2 == [k \in 1..Size(signal2) |-> RSub(signal2[k], mean2)]
    IN  [numerator |-> RSum([k \in 1..Size(signal1) |-> RMul(diff1[k], diff2[k])]),
         product |-> RMul(RSum(Squares(diff1)), RSum(Squares(diff2)))]

calculateCorrelation_noSqrt(signal1, signal2) ==
    IF Size(signal1) # Size(signal2) \/ signal1 = <<>> THEN Value(Zero)
    ELSE LET c == CorrelationSums(signal1, signal2)
         IN  IF BelowEps(c.product) THEN Value(Zero)
             ELSE Value(RDiv(c.numerator, c.product))

\* denominator = sqrt(sum_sq1 * sum_sq2): denominator < 1e-10 is decided on
\* the product (sqrt(p) < 1 iff p < 1 in the units of the inputs); the
\* quotient is exact when the product is the square of a rational and is
\* kept symbolic otherwise.
calculateCorrelation(signal1, signal2) ==
    IF Size(signal1) # Size(signal2) \/ signal1 = <<>> THEN Value(Zero)
    ELSE LET c == CorrelationSums(signal1, signal2)
         IN  IF BelowEps(c.product) THEN Value(Zero)
             ELSE IF IsSquare(c.product[1]) /\ IsSquare(c.product[2])
                  THEN Value(RDiv(c.numerator,
                                  <<ISqrt(c.product[1]), ISqrt(c.product[2])>>))
                  ELSE SqrtRatio(c.numerator, c.product)

(***************************************************************************)
(* SavgolFilter.                                                           *)
(***************************************************************************)
PivotEpsExp == 12                 \* a pivot below 1e-PivotEpsExp is singular

RECURSIVE IPow(_, _)
IPow(k, e) == IF e = 0 THEN 1 ELSE k * IPow(k, e - 1)

\* matrix[i][j] = sum over k = -halfWindow..halfWindow of pow(k, i + j);
\* rows and columns are 0-based as in the source.
NormalMatrix(windowSize, polyOrder) ==
    LET halfWindow == windowSize \div 2
    IN  [i \in 0..polyOrder |->
            [j \in 0..polyOrder |->
                RSum([t \in 1..(2 * halfWindow + 1) |-> R(IPow(t - 1 - halfWindow, i + j))])]]

\* Forward elimination from column i on, with partial pivoting; the first
\* row of largest magnitude is the pivot row.
RECURSIVE Eliminate(_, _, _, _)
Eliminate(matrix, rhs, n, i) ==
    IF i = n THEN [ok |-> TRUE, matrix |-> matrix, rhs |-> rhs]
    ELSE LET mag(r) == RAbs(matrix[r][i])
             maxRow == CHOOSE r \in i..(n - 1) :
                          /\ \A k \in i..(n - 1) : RLe(mag(k), mag(r))
                          /\ \A k \in i..(r - 1) : RLt(mag(k), mag(r))
             swap(v) == [v EXCEPT ![i] = v[maxRow], ![maxRow] = v[i]]
             m1 == swap(matrix)
             r1 == swap(rhs)
             pivot == m1[i][i]
             factor(k) == RDiv(m1[k][i], pivot)
             m2 == [k \in 0..(n - 1) |->
                      IF k <= i THEN m1[k]
                      ELSE [j \in 0..(n - 1) |->
                              IF j < i THEN m1[k][j]
                              ELSE RSub(m1[k][j], RMul(factor(k), m1[i][j]))]]
             r2 == [k \in 0..(n - 1) |->
                      IF k <= i THEN r1[k] ELSE RSub(r1[k], RMul(factor(k), r1[i]))]
         IN  IF LtPow10Neg(Abs(pivot[1]), pivot[2], PivotEpsExp)
             THEN [ok |-> FALSE, matrix |-> m1, rhs |-> r1]
             ELSE Eliminate(m2, r2, n, i + 1)

\* Back substitution for rows i, i-1, ..., 0.
RECURSIVE BackSubstitute(_, _, _, _, _)
BackSubstitute(matrix, rhs, n, i, solution) ==
    IF i < 0 THEN solution
    ELSE LET tail == RSum([t \in 1..(n - 1 - i) |->
                             RMul(matrix[i][i + t], solution[i + t])])
             x == RDiv(RSub(rhs[i], tail), matrix[i][i])
         IN  BackSubstitute(matrix, rhs, n, i - 1, [solution EXCEPT ![i] = x])

\* [ok |-> FALSE] stands for the thrown "Matrix is singular".
gaussElimination(matrix, rhs) ==
    LET n == Cardinality(DOMAIN matrix)
        e == Eliminate(matrix, rhs, n, 0)
    IN  IF ~e.ok THEN [ok |-> FALSE, solution |-> <<>>]
        ELSE [ok |-> TRUE,
              solution |-> BackSubstitute(e.matrix, e.rhs, n, n - 1,
                                          [i \in 0..(n - 1) |-> Zero])]

TapsFrom_uncentred(polyCoeffs, windowSize, polyOrder) ==
    [t \in 1..windowSize |->
        RSum([u \in 1..(polyOrder + 1) |->
                RMul(polyCoeffs[u - 1], R(IPow(t - 1, u - 1)))])]

\* coefficients_[i] = sum over j of polyCoeffs[j] * pow(i - halfWindow, j).
TapsFrom(polyCoeffs, windowSize, polyOrder) ==
    LET halfWindow == windowSize \div 2
    IN  [t \in 1..windowSize |->
            RSum([u \in 1..(polyOrder + 1) |->
                    RMul(polyCoeffs[u - 1], R(IPow(t - 1 - halfWindow, u - 1)))])]

calculateCoefficients(windowSize, polyOrder) ==
    LET rhs == [i \in 0..polyOrder |-> IF i = 0 THEN R(1) ELSE Zero]
        g == gaussElimination(NormalMatrix(windowSize, polyOrder), rhs)
    IN  IF ~g.ok THEN [ok |-> FALSE, coefficients |-> <<>>]
        ELSE [ok |-> TRUE, coefficients |-> TapsFrom(g.solution, windowSize, polyOrder)]

\* The position of the vector that getReflectedValue reads for `index`:
\* -index for index < 0 (no bounds check), 2*size - 2 - index past the
\* end (0 if that is negative), index itself otherwise.
resolvedIndex(size, index) ==
    IF index < 0 THEN -index
    ELSE IF index >= size
         THEN LET reflectedIndex == 2 * size - 2 - index
              IN  IF reflectedIndex < 0 THEN 0 ELSE reflectedIndex
         ELSE index

\* A read at a position >= size is outside the vector and yields whatever
\* `heap` holds at that position.
getReflectedValue(input, index, heap) ==
    LET position == resolvedIndex(Size(input), index)
    IN  IF position < Size(input) THEN At(input, position) ELSE heap[position]

applyFilter(f, input, centerIndex, heap) ==
    LET halfWindow == f.windowSize_ \div 2
    IN  RSum([t \in 1..f.windowSize_ |->
                RMul(f.coefficients_[t],
                     getReflectedValue(input, centerIndex - halfWindow + t - 1, heap))])

\* The positions past the end of `input` that process may read.
HeapPositions(f, input) == Size(input)..(f.windowSize_ \div 2)

SavgolFilter_process(f, input, heap) ==
    IF input = <<>> THEN <<>>
    ELSE [k \in 1..Size(input) |-> applyFilter(f, input, k - 1, heap)]

SavgolArgumentsRejected(windowSize, polyOrder) ==
    windowSize = 0 \/ windowSize % 2 = 0 \/ polyOrder >= windowSize

\* windowSize_ and polyOrder_ are assigned before calculateCoefficients
\* runs; coefficients_ is replaced only after gaussElimination returned.
SavgolFilter_setParameters(f, windowSize, polyOrder) ==
    IF SavgolArgumentsRejected(windowSize, polyOrder)
    THEN [thrown |-> TRUE, filter |-> f]
    ELSE LET c == calculateCoefficients(windowSize, polyOrder)
             assigned == [f EXCEPT !.windowSize_ = windowSize, !.polyOrder_ = polyOrder]
         IN  IF ~c.ok THEN [thrown |-> TRUE, filter |-> assigned]
             ELSE [thrown |-> FALSE,
                   filter |-> [assigned EXCEPT !.coefficients_ = c.coefficients]]

(***************************************************************************)
(* WienerFilter.                                                           *)
(***************************************************************************)
\* reset(): weights_[i] = 0.001 * (rand() / RAND_MAX - 0.5); `fractions`
\* holds the values rand() / RAND_MAX takes, one per weight.
reset(filterOrder, fractions) ==
    [i \in 1..filterOrder |-> RMul(<<1, 1000>>, RSub(fractions[i], <<1, 2>>))]

Dot(u, v) == RSum([i \in 1..Len(u) |-> RMul(u[i], v[i])])

\* The buffer shifted by one place with input[n] put in front.
Shifted(delayBuffer, input, n) ==
    [i \in 1..Len(delayBuffer) |-> IF i = 1 THEN At(input, n) ELSE delayBuffer[i - 1]]

desiredLMS_neighboursOnly(input, n) ==
    IF 0 < n /\ n < Size(input) - 1
    THEN RMul(<<1, 2>>, RAdd(At(input, n - 1), At(input, n + 1)))
    ELSE IF n = 0 /\ Size(input) > 1 THEN At(input, 1)
    ELSE IF n > 0 THEN At(input, n - 1)
    ELSE At(input, n)

\* desired = input[n]; for n > 0 it is
\* 0.5 * (input[n-1] + (n < size-1 ? input[n+1] : input[n])).
desiredLMS(input, n) ==
    IF n > 0
    THEN RMul(<<1, 2>>,
              RAdd(At(input, n - 1),
                   IF n < Size(input) - 1 THEN At(input, n + 1) ELSE At(input, n)))
    ELSE At(input, n)

LMSStep_updatesBeforeOutput(st, input, n, mu) ==
    LET P == Len(st.weights)
        delay == Shifted(st.delayBuffer, input, n)
        desired == desiredLMS(input, n)
        error == RSub(desired, Dot(st.weights, delay))
        updated == [i \in 1..P |-> RAdd(st.weights[i], RMul(RMul(mu, error), delay[i]))]
    IN  [weights |-> updated,
         delayBuffer |-> delay,
         output |-> Append(st.output, Dot(updated, delay)),
         desired |-> Append(st.desired, desired)]

\* One pass of the loop body of processLMS at sample n, on the state
\* [weights, delayBuffer, output]; `desired` keeps the targets formed so far.
LMSStep(st, input, n, mu) ==
    LET P == Len(st.weights)
        delay == Shifted(st.delayBuffer, input, n)
        y == Dot(st.weights, delay)
        desired == desiredLMS(input, n)
        error == RSub(desired, y)
    IN  [weights |-> [i \in 1..P |-> RAdd(st.weights[i], RMul(RMul(mu, error), delay[i]))],
         delayBuffer |-> delay,
         output |-> Append(st.output, y),
         desired |-> Append(st.desired, desired)]

RECURSIVE LMSLoop(_, _, _, _)
LMSLoop(st, input, n, mu) ==
    IF n >= Size(input) THEN st ELSE LMSLoop(LMSStep(st, input, n, mu), input, n + 1, mu)

\* Returns the output signal, the weights left in the filter and the
\* targets of the samples.
processLMS(f, input) ==
    LET st == LMSLoop([weights |-> f.weights_,
                       delayBuffer |-> Fill(f.filterOrder_, Zero),
                       output |-> <<>>,
                       desired |-> <<>>],
                      input, 0, f.mu_)
    IN  [output |-> st.output, weights |-> st.weights, desired |-> st.desired]

\* desired of processRLS: the mean of five samples for 2 < n < size - 2
\* (size - 2 is computed in size_t, so it wraps for size < 2, where no
\* n > 2 exists).
desiredRLS(input, n) ==
    IF n > 2 /\ n < Size(input) - 2
    THEN RDiv(RSum([t \in 1..5 |-> At(input, n - 3 + t)]), R(5))
    ELSE At(input, n)

\* One pass of the loop body of processRLS on the state
\* [weights, delayBuffer, P, output].
RLSStep(st, input, n, lambda) ==
    LET order == Len(st.weights)
        delay == Shifted(st.delayBuffer, input, n)
        y == Dot(st.weights, delay)
        desired == desiredRLS(input, n)
        error == RSub(desired, y)
        denominator ==
            RAdd(lambda,
                 RSum([i \in 1..order |->
                         RSum([j \in 1..order |->
                                 RMul(RMul(delay[i], st.P[i][j]), delay[j])])]))
        k == [i \in 1..order |-> RDiv(Dot(st.P[i], delay), denominator)]
    IN  [weights |-> [i \in 1..order |-> RAdd(st.weights[i], RMul(k[i], error))],
         delayBuffer |-> delay,
         P |-> [i \in 1..order |->
                  [j \in 1..order |->
                      RDiv(RSub(st.P[i][j], RMul(k[i], delay[j])), lambda)]],
         output |-> Append(st.output, y),
         desired |-> Append(st.desired, desired)]

RECURSIVE RLSLoop(_, _, _, _)
RLSLoop(st, input, n, lambda) ==
    IF n >= Size(input) THEN st ELSE RLSLoop(RLSStep(st, input, n, lambda), input, n + 1, lambda)

\* P starts as (1 / delta) * I with delta = 0.001.
processRLS(f, input) ==
    LET st == RLSLoop([weights |-> f.weights_,
                       delayBuffer |-> Fill(f.filterOrder_, Zero),
                       P |-> [i \in 1..f.filterOrder_ |->
                                [j \in 1..f.filterOrder_ |->
                                    IF i = j THEN RInv(<<1, 1000>>) ELSE Zero]],
                       output |-> <<>>,
                       desired |-> <<>>],
                      input, 0, f.lambda_)
    IN  [output |-> st.output, weights |-> st.weights, desired |-> st.desired]

WienerFilter_process_reinitialises(f, input) ==
    IF input = <<>> THEN [output |-> <<>>, weights |-> f.weights_, desired |-> <<>>]
    ELSE processLMS([f EXCEPT !.weights_ = Fill(f.filterOrder_, Zero)], input)

WienerFilter_process_viaRLS(f, input) ==
    IF input = <<>> THEN [output |-> <<>>, weights |-> f.weights_, desired |-> <<>>]
    ELSE processRLS(f, input)

WienerFilter_process(f, input) ==
    IF input = <<>> THEN [output |-> <<>>, weights |-> f.weights_, desired |-> <<>>]
    ELSE processLMS(f, input)

\* The three argument checks shared by the constructor and setParameters.
WienerArgumentsRejected(filterOrder, mu, lambda) ==
    \/ filterOrder = 0
    \/ RLe(mu, Zero) \/ RLe(R(1), mu)
    \/ RLe(lambda, Zero) \/ RLt(R(1), lambda)

WienerFilter_reset(f, fractions) ==
    [f EXCEPT !.weights_ = reset(f.filterOrder_, fractions)]

WienerFilter_setParameters_keepsWeights(f, filterOrder, mu, lambda, fractions) ==
    IF WienerArgumentsRejected(filterOrder, mu, lambda)
    THEN [thrown |-> TRUE, filter |-> f]
    ELSE [thrown |-> FALSE,
          filter |-> [f EXCEPT !.filterOrder_ = filterOrder, !.mu_ = mu,
                               !.lambda_ = lambda]]

\* [thrown |-> TRUE] stands for the std::invalid_argument.
WienerFilter_setParameters(f, filterOrder, mu, lambda, fractions) ==
    IF WienerArgumentsRejected(filterOrder, mu, lambda)
    THEN [thrown |-> TRUE, filter |-> f]
    ELSE [thrown |-> FALSE,
          filter |-> WienerFilter_reset([f EXCEPT !.filterOrder_ = filterOrder,
                                                  !.mu_ = mu,
                                                  !.lambda_ = lambda],
                                        fractions)]

(***************************************************************************)
(* OutlierDetection.                                                       *)
(***************************************************************************)
ArOrder == 5                      \* arOrder_
LinearEpsExp == 10                \* linearInterpolate: |x2 - x1| < 1e-10

mad(values, med) == median([k \in 1..Len(values) |-> RAbs(RSub(values[k], med))])

linearInterpolate(x1, y1, x2, y2, x) ==
    LET dx == RSub(x2, x1)
    IN  IF LtPow10Neg(Abs(dx[1]), dx[2], LinearEpsExp) THEN y1
        ELSE RAdd(y1, RDiv(RMul(RSub(y2, y1), RSub(x, x1)), dx))

\* The boundary-clipped window [startIdx, endIdx) around i.
WindowStart(i, halfWindow) == IF i >= halfWindow THEN i - halfWindow ELSE 0
WindowEnd(i, halfWindow, size) == Min2(i + halfWindow + 1, size)

detectMADBased_noZeroGuard(input, threshold, windowSize) ==
    LET halfWindow == windowSize \div 2
    IN  [k \in 1..Size(input) |->
            LET i == k - 1
                startIdx == WindowStart(i, halfWindow)
                endIdx == WindowEnd(i, halfWindow, Size(input))
                window == [t \in 1..(endIdx - startIdx) |-> At(input, startIdx + t - 1)]
                med == median(window)
                madValue == mad(window, med)
            IN  /\ Len(window) >= 3
                /\ RLt(RMul(threshold, madValue), RAbs(RSub(At(input, i), med)))]

detectMADBased_anyWindow(input, threshold, windowSize) ==
    LET halfWindow == windowSize \div 2
    IN  [k \in 1..Size(input) |->
            LET i == k - 1
                startIdx == WindowStart(i, halfWindow)
                endIdx == WindowEnd(i, halfWindow, Size(input))
                window == [t \in 1..(endIdx - startIdx) |-> At(input, startIdx + t - 1)]
                med == median(window)
                madValue == mad(window, med)
            IN  /\ RLt(Zero, madValue)
                /\ RLt(RMul(threshold, madValue), RAbs(RSub(At(input, i), med)))]

detectMADBased(input, threshold, windowSize) ==
    LET halfWindow == windowSize \div 2
    IN  [k \in 1..Size(input) |->
            LET i == k - 1
                startIdx == WindowStart(i, halfWindow)
                endIdx == WindowEnd(i, halfWindow, Size(input))
                window == [t \in 1..(endIdx - startIdx) |-> At(input, startIdx + t - 1)]
                med == median(window)
                madValue == mad(window, med)
            IN  /\ Len(window) >= 3
                /\ RLt(Zero, madValue)
                /\ RLt(RMul(threshold, madValue), RAbs(RSub(At(input, i), med)))]

\* zscore = |x - mean| / stddev > threshold, with stddev = sqrt(variance) > 0,
\* is decided on the squares: (x - mean)^2 > threshold^2 * variance.
ExceedsStddev(x, mean, threshold, variance) ==
    LET d == RSub(x, mean)
    IN  RLt(RMul(RMul(threshold, threshold), variance), RMul(d, d))

Variance(xs, mean) ==
    RDiv(RSum([k \in 1..Len(xs) |-> RMul(RSub(xs[k], mean), RSub(xs[k], mean))]),
         R(Len(xs)))

detectStatistical(input, threshold) ==
    LET mean == Mean(input)
        variance == Variance(input, mean)
    IN  [k \in 1..Size(input) |->
            /\ variance # Zero
            /\ ExceedsStddev(input[k], mean, threshold, variance)]

detectAdaptiveThreshold_withCentre(input, threshold, windowSize) ==
    LET halfWindow == windowSize \div 2
    IN  [k \in 1..Size(input) |->
            LET i == k - 1
                startIdx == WindowStart(i, halfWindow)
                endIdx == WindowEnd(i, halfWindow, Size(input))
                neighbours == [t \in 1..(endIdx - startIdx) |-> At(input, startIdx + t - 1)]
                localMean == Mean(neighbours)
                localVariance == Variance(neighbours, localMean)
            IN  IF localVariance = Zero
                THEN RLt(threshold, RAbs(RSub(At(input, i), localMean)))
                ELSE ExceedsStddev(At(input, i), localMean, threshold, localVariance)]

detectAdaptiveThreshold(input, threshold, windowSize) ==
    LET halfWindow == windowSize \div 2
    IN  [k \in 1..Size(input) |->
            LET i == k - 1
                startIdx == WindowStart(i, halfWindow)
                endIdx == WindowEnd(i, halfWindow, Size(input))
                others == SelectSeq([t \in 1..(endIdx - startIdx) |-> startIdx + t - 1],
                                    LAMBDA j : j # i)
                neighbours == [t \in 1..Len(others) |-> At(input, others[t])]
                localMean == Mean(neighbours)
                localVariance == Variance(neighbours, localMean)
            IN  /\ Len(others) # 0
                /\ IF localVariance = Zero
                   THEN RLt(threshold, RAbs(RSub(At(input, i), localMean)))
                   ELSE ExceedsStddev(At(input, i), localMean, threshold, localVariance)]

detectOutliers(f, input) ==
    CASE f.detectionMethod_ = "MAD_BASED" ->
            detectMADBased(input, f.threshold_, f.windowSize_)
      [] f.detectionMethod_ = "STATISTICAL" ->
            detectStatistical(input, f.threshold_)
      [] f.detectionMethod_ = "ADAPTIVE_THRESHOLD" ->
            detectAdaptiveThreshold(input, f.threshold_, f.windowSize_)
      [] OTHER -> [k \in 1..Size(input) |-> FALSE]

findNearestNormalPoints_outermost(outliers, index) ==
    LET lefts == {i \in 0..(index - 1) : ~At(outliers, i)}
        rights == {i \in (index + 1)..(Len(outliers) - 1) : ~At(outliers, i)}
    IN  <<IF lefts = {} THEN -1 ELSE CHOOSE i \in lefts : \A j \in lefts : i <= j,
          IF rights = {} THEN -1 ELSE CHOOSE i \in rights : \A j \in rights : j <= i>>

\* <<leftIdx, rightIdx>>, -1 where no normal point exists on that side.
findNearestNormalPoints(outliers, index) ==
    LET lefts == {i \in 0..(index - 1) : ~At(outliers, i)}
        rights == {i \in (index + 1)..(Len(outliers) - 1) : ~At(outliers, i)}
    IN  <<IF lefts = {} THEN -1 ELSE CHOOSE i \in lefts : \A j \in lefts : j <= i,
          IF rights = {} THEN -1 ELSE CHOOSE i \in rights : \A j \in rights : i <= j>>

interpolateLinear(input, outliers) ==
    [k \in 1..Size(input) |->
        LET i == k - 1
            near == findNearestNormalPoints(outliers, i)
            leftIdx == near[1]
            rightIdx == near[2]
        IN  IF ~outliers[k] THEN input[k]
            ELSE IF leftIdx >= 0 /\ rightIdx >= 0
                 THEN linearInterpolate(R(leftIdx), At(input, leftIdx),
                                        R(rightIdx), At(input, rightIdx), R(i))
                 ELSE IF leftIdx >= 0 THEN At(input, leftIdx)
                 ELSE IF rightIdx >= 0 THEN At(input, rightIdx)
                 ELSE input[k]]

interpolateMedian_fromAllNeighbours(input, outliers, windowSize) ==
    LET halfWindow == Min2(windowSize \div 2, 5)
    IN  [k \in 1..Size(input) |->
            LET i == k - 1
                startIdx == WindowStart(i, halfWindow)
                endIdx == WindowEnd(i, halfWindow, Size(input))
                picked == SelectSeq([t \in 1..(endIdx - startIdx) |-> startIdx + t - 1],
                                    LAMBDA j : j # i)
                neighbors == [t \in 1..Len(picked) |-> At(input, picked[t])]
            IN  IF outliers[k] /\ neighbors # <<>> THEN median(neighbors) ELSE input[k]]

interpolateMedian_uncapped(input, outliers, windowSize) ==
    LET halfWindow == windowSize \div 2
    IN  [k \in 1..Size(input) |->
            LET i == k - 1
                startIdx == WindowStart(i, halfWindow)
                endIdx == WindowEnd(i, halfWindow, Size(input))
                picked == SelectSeq([t \in 1..(endIdx - startIdx) |-> startIdx + t - 1],
                                    LAMBDA j : j # i /\ ~At(outliers, j))
                neighbors == [t \in 1..Len(picked) |-> At(input, picked[t])]
            IN  IF outliers[k] /\ neighbors # <<>> THEN median(neighbors) ELSE input[k]]

interpolateMedian(input, outliers, windowSize) ==
    LET halfWindow == Min2(windowSize \div 2, 5)
    IN  [k \in 1..Size(input) |->
            LET i == k - 1
                startIdx == WindowStart(i, halfWindow)
                endIdx == WindowEnd(i, halfWindow, Size(input))
                picked == SelectSeq([t \in 1..(endIdx - startIdx) |-> startIdx + t - 1],
                                    LAMBDA j : j # i /\ ~At(outliers, j))
                neighbors == [t \in 1..Len(picked) |-> At(input, picked[t])]
            IN  IF outliers[k] /\ neighbors # <<>> THEN median(neighbors) ELSE input[k]]

ARValue_fromAllPredecessors(result, input, outliers, i) ==
    LET js == [j \in 1..Min2(ArOrder, i) |-> j]
        sum == RSum([t \in 1..Len(js) |-> RMul(<<1, js[t]>>, At(result, i - js[t]))])
        weightSum == RSum([t \in 1..Len(js) |-> <<1, js[t]>>])
    IN  IF RLt(Zero, weightSum) THEN RDiv(sum, weightSum)
        ELSE At(interpolateLinear(input, outliers), i)

ARValue_fromNearestNormal(result, input, outliers, i) ==
    LET normal == SelectSeq([j \in 1..i |-> j], LAMBDA j : ~At(outliers, i - j))
        js == SubSeq(normal, 1, Min2(ArOrder, Len(normal)))
        sum == RSum([t \in 1..Len(js) |-> RMul(<<1, js[t]>>, At(result, i - js[t]))])
        weightSum == RSum([t \in 1..Len(js) |-> <<1, js[t]>>])
    IN  IF RLt(Zero, weightSum) THEN RDiv(sum, weightSum)
        ELSE At(interpolateLinear(input, outliers), i)

\* The value written to result[i] for a flagged i: the 1/j-weighted mean of
\* result[i - j] over the non-flagged i - j with 1 <= j <= arOrder_, and
\* the linear interpolation of `input` when there is none.
ARValue(result, input, outliers, i) ==
    LET js == SelectSeq([j \in 1..Min2(ArOrder, i) |-> j],
                        LAMBDA j : ~At(outliers, i - j))
        sum == RSum([t \in 1..Len(js) |-> RMul(<<1, js[t]>>, At(result, i - js[t]))])
        weightSum == RSum([t \in 1..Len(js) |-> <<1, js[t]>>])
    IN  IF RLt(Zero, weightSum) THEN RDiv(sum, weightSum)
        ELSE At(interpolateLinear(input, outliers), i)

\* The loop over i, carrying `result`.
RECURSIVE ARLoop(_, _, _, _)
ARLoop(result, input, outliers, i) ==
    IF i >= Len(outliers) THEN result
    ELSE IF ~At(outliers, i) THEN ARLoop(result, input, outliers, i + 1)
    ELSE ARLoop([result EXCEPT ![i + 1] = ARValue(result, input, outliers, i)],
                input, outliers, i + 1)

interpolateAutoregressive(input, outliers) == ARLoop(input, input, outliers, 0)

OutlierDetection_process(f, input) ==
    IF input = <<>> THEN <<>>
    ELSE LET outliers == detectOutliers(f, input)
         IN  CASE f.interpolationMethod_ = "LINEAR" -> interpolateLinear(input, outliers)
               [] f.interpolationMethod_ = "MEDIAN_BASED" ->
                     interpolateMedian(input, outliers, f.windowSize_)
               [] f.interpolationMethod_ = "AUTOREGRESSIVE" ->
                     interpolateAutoregressive(input, outliers)
               [] f.interpolationMethod_ = "SPLINE" -> interpolateLinear(input, outliers)
               [] OTHER -> input

OutlierArgumentsRejected(threshold, windowSize) ==
    RLe(threshold, Zero) \/ windowSize = 0 \/ windowSize % 2 = 0

OutlierDetection_setParameters(f, detectionMethod, interpolationMethod, threshold, windowSize) ==
    IF OutlierArgumentsRejected(threshold, windowSize)
    THEN [thrown |-> TRUE, filter |-> f]
    ELSE [thrown |-> FALSE,
          filter |-> [f EXCEPT !.detectionMethod_ = detectionMethod,
                               !.interpolationMethod_ = interpolationMethod,
                               !.threshold_ = threshold,
                               !.windowSize_ = windowSize]]

(***************************************************************************)
(* Rounded arithmetic.  A double holds SignificandBits significant bits    *)
(* (53 in the machine) and every operation returns the representable      *)
(* value nearest to the exact result, ties going to the even significand.  *)
(* The detectors are written out once more in this arithmetic: they        *)
(* compare computed statistics with 0.0 exactly, which rounding decides.    *)
(***************************************************************************)
Exponents == (-12)..6
Scale(k) == IF k >= 0 THEN <<IPow(2, k), 1>> ELSE <<1, IPow(2, -k)>>

\* The integer nearest to x >= 0, the even one at a tie.
RoundHalfEven(x) ==
    LET m == x[1] \div x[2]
        twice == 2 * (x[1] % x[2])
    IN  IF twice > x[2] \/ (twice = x[2] /\ m % 2 = 1) THEN m + 1 ELSE m

\* The representable value nearest to q.
Fl(q) ==
    IF IsNaN(q) THEN NaN
    ELSE IF q[1] = 0 THEN Zero
    ELSE LET a == RAbs(q)
             k == CHOOSE e \in Exponents :
                      /\ RLe(R(IPow(2, SignificandBits - 1)), RDiv(a, Scale(e)))
                      /\ RLt(RDiv(a, Scale(e)), R(IPow(2, SignificandBits)))
             v == RMul(R(RoundHalfEven(RDiv(a, Scale(k)))), Scale(k))
         IN  IF q[1] < 0 THEN RNeg(v) ELSE v

DAdd(a, b) == Fl(RAdd(a, b))
DSub(a, b) == Fl(RSub(a, b))
DMul(a, b) == Fl(RMul(a, b))
DDiv(a, b) == Fl(RDiv(a, b))

\* std::sqrt: the representable value nearest to the square root of q >= 0.
DSqrt(q) ==
    IF IsNaN(q) THEN NaN
    ELSE IF q[1] = 0 THEN Zero
    ELSE LET k == CHOOSE e \in Exponents :
                      /\ RLe(R(IPow(4, SignificandBits - 1)), RDiv(q, Scale(2 * e)))
                      /\ RLt(RDiv(q, Scale(2 * e)), R(IPow(4, SignificandBits)))
             x == RDiv(q, Scale(2 * k))
             m == CHOOSE c \in IPow(2, SignificandBits - 1)..(IPow(2, SignificandBits) - 1) :
                      RLe(R(c * c), x) /\ RLt(x, R((c + 1) * (c + 1)))
             half == <<(2 * m + 1) * (2 * m + 1), 4>>
             up == RLt(half, x) \/ (x = Norm(half[1], half[2]) /\ m % 2 = 1)
         IN  RMul(R(IF up THEN m + 1 ELSE m), Scale(k))

\* acc + s[1] + s[2] + ..., every partial sum rounded.
RECURSIVE DSum(_, _)
DSum(acc, s) == IF s = <<>> THEN acc ELSE DSum(DAdd(acc, Head(s)), Tail(s))

DSquaredDeviations(xs, mean) ==
    [k \in 1..Len(xs) |-> DMul(DSub(xs[k], mean), DSub(xs[k], mean))]

medianRounded(values) ==
    LET sorted == SortSeq(values, RLt)
        size == Len(values)
    IN  IF size = 0 THEN Zero
        ELSE IF size % 2 = 0
             THEN DDiv(DAdd(At(sorted, size \div 2 - 1), At(sorted, size \div 2)), R(2))
             ELSE At(sorted, size \div 2)

madRounded(values, med) ==
    medianRounded([k \in 1..Len(values) |-> RAbs(DSub(values[k], med))])

detectMADBasedRounded(input, threshold, windowSize) ==
    LET halfWindow == windowSize \div 2
    IN  [k \in 1..Size(input) |->
            LET i == k - 1
                startIdx == WindowStart(i, halfWindow)
                endIdx == WindowEnd(i, halfWindow, Size(input))
                window == [t \in 1..(endIdx - startIdx) |-> At(input, startIdx + t - 1)]
                med == medianRounded(window)
                madValue == madRounded(window, med)
            IN  /\ Len(window) >= 3
                /\ RLt(Zero, madValue)
                /\ RLt(DMul(threshold, madValue), RAbs(DSub(At(input, i), med)))]

detectStatisticalRounded(input, threshold) ==
    LET mean == DDiv(DSum(Zero, input), R(Size(input)))
        variance == DDiv(DSum(Zero, DSquaredDeviations(input, mean)), R(Size(input)))
        stddev == DSqrt(variance)
    IN  [k \in 1..Size(input) |->
            /\ stddev # Zero
            /\ RLt(threshold, DDiv(RAbs(DSub(input[k], mean)), stddev))]

detectAdaptiveThresholdRounded(input, threshold, windowSize) ==
    LET halfWindow == windowSize \div 2
    IN  [k \in 1..Size(input) |->
            LET i == k - 1
                startIdx == WindowStart(i, halfWindow)
                endIdx == WindowEnd(i, halfWindow, Size(input))
                others == SelectSeq([t \in 1..(endIdx - startIdx) |-> startIdx + t - 1],
                                    LAMBDA j : j # i)
                neighbours == [t \in 1..Len(others) |-> At(input, others[t])]
                count == Len(others)
                localMean == DDiv(DSum(Zero, neighbours), R(count))
                localVariance == DDiv(DSum(Zero, DSquaredDeviations(neighbours, localMean)),
                                      R(count))
                localStddev == DSqrt(localVariance)
                adaptiveThreshold == IF localStddev = Zero THEN threshold
                                     ELSE DMul(threshold, localStddev)
            IN  /\ count # 0
                /\ RLt(adaptiveThreshold, RAbs(DSub(At(input, i), localMean)))]

detectOutliersRounded(f, input) ==
    CASE f.detectionMethod_ = "MAD_BASED" ->
            detectMADBasedRounded(input, f.threshold_, f.windowSize_)
      [] f.detectionMethod_ = "STATISTICAL" ->
            detectStatisticalRounded(input, f.threshold_)
      [] f.detectionMethod_ = "ADAPTIVE_THRESHOLD" ->
            detectAdaptiveThresholdRounded(input, f.threshold_, f.windowSize_)
      [] OTHER -> [k \in 1..Size(input) |-> FALSE]

(***************************************************************************)
(* The program: one SignalProcessor object `filter` held by a caller that  *)
(* constructs a filter, calls process / detectOutliers on it, destroys it, *)
(* and calls the quality metrics.  `last` is the call that has just        *)
(* returned (or thrown); the caller drops it before the next call.         *)
(* Between calls the caller may reconfigure the filter or time a call with *)
(* measurePerformance.                                                     *)
(* `adapted` counts the samples the current WienerFilter has processed.    *)
(***************************************************************************)
NoFilter == [kind |-> "none"]
NoCall == [op |-> "none"]
Idle == last.op = "none"
Unbuilt == Idle /\ filter = NoFilter

Operations == {"OPENING", "CLOSING", "EROSION", "DILATION"}
DetectionMethods == {"MAD_BASED", "STATISTICAL", "ADAPTIVE_THRESHOLD"}
InterpolationMethods == {"LINEAR", "SPLINE", "MEDIAN_BASED", "AUTOREGRESSIVE"}
Thresholds == {R(0), <<1, 2>>, R(3), NaN}
\* Samples with three significant bits, and the signals made of them.
RoundedVals == {R(1), <<3, 2>>, <<7, 4>>}
RoundedSignals == SignalsOver(RoundedVals, MaxShort)
Elements == SignalsOver({R(0), R(1)}, 2)
StepSizes == {R(0), <<1, 2>>, R(1), NaN}
ForgettingFactors == {R(0), <<1, 2>>, R(1), R(2)}
RandFractions == {R(0), R(1)}
Indeterminate == {R(0), R(7)}
Coefs == {-1, 0, 1}
Poly(c, n) ==
    [k \in 1..n |-> R(c[0] + RSum([t \in 1..MaxDegree |-> R(c[t] * IPow(k - 1, t))])[1])]
PolySignals == {Poly(c, n) : c \in [0..MaxDegree -> Coefs], n \in 1..MaxPolyLen}
SavgolSignals == SignalsOver(Vals, MaxLen) \cup PolySignals
WienerSignals == SignalsOver({R(0), R(1)}, MaxShort)
MetricSignals == SignalsOver(Vals, MaxShort)

MeasureSignals == SignalsOver({R(0), R(1)}, 2)
Durations == {0, 1}

\* A constructor call `op` has returned, leaving the object f.
ConstructedBy(op, f, args) ==
    /\ filter' = f
    /\ adapted' = 0
    /\ last' = [op |-> op, kind |-> f.kind, thrown |-> FALSE, args |-> args]

\* A constructor call `op` of class `kind` has thrown: no object exists.
ThrownBy(op, kind, args) ==
    /\ UNCHANGED <<filter, adapted>>
    /\ last' = [op |-> op, kind |-> kind, thrown |-> TRUE, args |-> args]

Constructed(f, args) == ConstructedBy("construct", f, args)

Thrown(kind, args) == ThrownBy("construct", kind, args)

Returned(input, output) ==
    /\ UNCHANGED <<filter, adapted>>
    /\ last' = [op |-> "process", input |-> input, output |-> output]

\* A reconfiguration call has returned or thrown, leaving r.filter.
Reconfigured(op, args, r) ==
    /\ filter' = r.filter
    /\ adapted' = adapted
    /\ last' = [op |-> op, kind |-> filter.kind, thrown |-> r.thrown, args |-> args]

Init ==
    /\ filter = NoFilter
    /\ adapted = 0
    /\ last = NoCall

(* ---- MedianFilter ---- *)
\* The constructor is setWindowSize on the new object.
NewMedianFilter ==
    /\ Unbuilt
    /\ \E windowSize \in WindowSizes :
           IF IsValidWindowSize(windowSize)
           THEN Constructed([kind |-> "MedianFilter", windowSize_ |-> windowSize],
                            <<windowSize>>)
           ELSE Thrown("MedianFilter", <<windowSize>>)

MedianProcess ==
    /\ Idle
    /\ filter.kind = "MedianFilter"
    /\ \E input \in Signals :
           Returned(input, MedianFilter_process(filter, input))

MedianSetWindowSize ==
    /\ Idle
    /\ filter.kind = "MedianFilter"
    /\ \E windowSize \in WindowSizes :
           Reconfigured("setWindowSize", <<windowSize>>,
                        MedianFilter_setWindowSize(filter, windowSize))

(* ---- MorphologicalFilter ---- *)
\* MorphologicalFilter(operation, elementSize): createFlatElement throws for
\* size 0.
NewMorphologicalFilterFlat ==
    /\ Unbuilt
    /\ \E operation \in Operations, elementSize \in 0..MaxElem :
           IF elementSize = 0
           THEN ThrownBy("constructFlat", "MorphologicalFilter", <<operation, elementSize>>)
           ELSE ConstructedBy("constructFlat",
                              [kind |-> "MorphologicalFilter",
                               operation_ |-> operation,
                               structuringElement_ |-> createFlatElement(elementSize)],
                              <<operation, elementSize>>)

\* MorphologicalFilter(operation, structuringElement).
NewMorphologicalFilter ==
    /\ Unbuilt
    /\ \E operation \in Operations, structuringElement \in Elements :
           IF structuringElement = <<>> THEN Thrown("MorphologicalFilter", <<operation, structuringElement>>)
           ELSE Constructed([kind |-> "MorphologicalFilter",
                             operation_ |-> operation,
                             structuringElement_ |-> structuringElement],
                            <<operation, structuringElement>>)

MorphologicalProcess ==
    /\ Idle
    /\ filter.kind = "MorphologicalFilter"
    /\ \E input \in Signals :
           Returned(input, MorphologicalFilter_process(filter, input))

MorphologicalSetOperation ==
    /\ Idle
    /\ filter.kind = "MorphologicalFilter"
    /\ \E operation \in Operations :
           Reconfigured("setOperation", <<operation>>,
                        MorphologicalFilter_setOperation(filter, operation))

MorphologicalSetStructuringElement ==
    /\ Idle
    /\ filter.kind = "MorphologicalFilter"
    /\ \E structuringElement \in Elements :
           Reconfigured("setStructuringElement", <<structuringElement>>,
                        MorphologicalFilter_setStructuringElement(filter,
                                                                  structuringElement))

(* ---- OutlierDetection ---- *)
NewOutlierDetection ==
    /\ Unbuilt
    /\ \E detectionMethod \in DetectionMethods,
          interpolationMethod \in InterpolationMethods,
          threshold \in Thresholds, windowSize \in OutlierWindowSizes :
           LET args == <<detectionMethod, interpolationMethod, threshold, windowSize>>
           IN  IF OutlierArgumentsRejected(threshold, windowSize) THEN Thrown("OutlierDetection", args)
               ELSE Constructed([kind |-> "OutlierDetection",
                                 detectionMethod_ |-> detectionMethod,
                                 interpolationMethod_ |-> interpolationMethod,
                                 threshold_ |-> threshold,
                                 windowSize_ |-> windowSize],
                                args)

OutlierProcess ==
    /\ Idle
    /\ filter.kind = "OutlierDetection"
    /\ \E input \in Signals :
           Returned(input, OutlierDetection_process(filter, input))

\* The public detectOutliers(input).
OutlierDetect ==
    /\ Idle
    /\ filter.kind = "OutlierDetection"
    /\ UNCHANGED <<filter, adapted>>
    /\ \E input \in Signals :
           last' = [op |-> "detectOutliers", input |-> input,
                    outliers |-> detectOutliers(filter, input)]

OutlierSetParameters ==
    /\ Idle
    /\ filter.kind = "OutlierDetection"
    /\ \E detectionMethod \in DetectionMethods,
          interpolationMethod \in InterpolationMethods,
          threshold \in Thresholds, windowSize \in OutlierWindowSizes :
           Reconfigured("setParameters",
                        <<detectionMethod, interpolationMethod, threshold, windowSize>>,
                        OutlierDetection_setParameters(filter, detectionMethod,
                                                       interpolationMethod,
                                                       threshold, windowSize))

(* ---- OutlierDetection in rounded arithmetic ---- *)
\* detectOutliers(input) on samples that SignificandBits bits hold exactly.
OutlierDetectRounded ==
    /\ Idle
    /\ filter.kind = "OutlierDetection"
    /\ UNCHANGED <<filter, adapted>>
    /\ \E input \in RoundedSignals :
           last' = [op |-> "detectOutliers", input |-> input,
                    outliers |-> detectOutliersRounded(filter, input)]

(* ---- SavgolFilter ---- *)
NewSavgolFilter ==
    /\ Unbuilt
    /\ \E windowSize \in WindowSizes, polyOrder \in WindowSizes :
           IF SavgolArgumentsRejected(windowSize, polyOrder)
           THEN Thrown("SavgolFilter", <<windowSize, polyOrder>>)
           ELSE LET c == calculateCoefficients(windowSize, polyOrder)
                IN  IF ~c.ok THEN Thrown("SavgolFilter", <<windowSize, polyOrder>>)
                    ELSE Constructed([kind |-> "SavgolFilter",
                                      windowSize_ |-> windowSize,
                                      polyOrder_ |-> polyOrder,
                                      coefficients_ |-> c.coefficients],
                                     <<windowSize, polyOrder>>)

\* `heap` is what lies behind the input vector where process reads past
\* its end.
SavgolProcess ==
    /\ Idle
    /\ filter.kind = "SavgolFilter"
    /\ \E input \in SavgolSignals :
           \E heap \in [HeapPositions(filter, input) -> Indeterminate] :
               Returned(input, SavgolFilter_process(filter, input, heap))

SavgolSetParameters ==
    /\ Idle
    /\ filter.kind = "SavgolFilter"
    /\ \E windowSize \in WindowSizes, polyOrder \in WindowSizes :
           Reconfigured("setParameters", <<windowSize, polyOrder>>,
                        SavgolFilter_setParameters(filter, windowSize, polyOrder))

(* ---- WienerFilter ---- *)
\* `fractions` are the values of rand() / RAND_MAX that reset() draws.
NewWienerFilter ==
    /\ Unbuilt
    /\ \E filterOrder \in 0..MaxOrder, mu \in StepSizes, lambda \in ForgettingFactors :
           IF WienerArgumentsRejected(filterOrder, mu, lambda)
           THEN Thrown("WienerFilter", <<filterOrder, mu, lambda>>)
           ELSE \E fractions \in [1..filterOrder -> RandFractions] :
                    Constructed([kind |-> "WienerFilter",
                                 filterOrder_ |-> filterOrder,
                                 mu_ |-> mu,
                                 lambda_ |-> lambda,
                                 weights_ |-> reset(filterOrder, fractions)],
                                <<filterOrder, mu, lambda>>)

WienerProcess ==
    /\ Idle
    /\ filter.kind = "WienerFilter"
    /\ \E input \in WienerSignals :
           LET r == WienerFilter_process(filter, input)
           IN  /\ adapted + Size(input) <= MaxSamples
               /\ adapted' = adapted + Size(input)
               /\ filter' = [filter EXCEPT !.weights_ = r.weights]
               /\ last' = [op |-> "process", input |-> input, output |-> r.output,
                           desired |-> r.desired]

WienerSetParameters ==
    /\ Idle
    /\ filter.kind = "WienerFilter"
    /\ \E filterOrder \in 0..MaxOrder, mu \in StepSizes, lambda \in ForgettingFactors :
           \E fractions \in [1..filterOrder -> RandFractions] :
               Reconfigured("setParameters", <<filterOrder, mu, lambda>>,
                            WienerFilter_setParameters(filter, filterOrder, mu, lambda,
                                                       fractions))

WienerReset ==
    /\ Idle
    /\ filter.kind = "WienerFilter"
    /\ \E fractions \in [1..filter.filterOrder_ -> RandFractions] :
           Reconfigured("reset", <<>>,
                        [thrown |-> FALSE, filter |-> WienerFilter_reset(filter, fractions)])

(* ---- SignalProcessor::measurePerformance ---- *)
\* The virtual call process(input) on filter f: the output and the filter
\* the call leaves behind.
Process(f, input, heap) ==
    CASE f.kind = "MedianFilter" ->
            [output |-> MedianFilter_process(f, input), filter |-> f]
      [] f.kind = "MorphologicalFilter" ->
            [output |-> MorphologicalFilter_process(f, input), filter |-> f]
      [] f.kind = "OutlierDetection" ->
            [output |-> OutlierDetection_process(f, input), filter |-> f]
      [] f.kind = "SavgolFilter" ->
            [output |-> SavgolFilter_process(f, input, heap), filter |-> f]
      [] f.kind = "WienerFilter" ->
            LET r == WienerFilter_process(f, input)
            IN  [output |-> r.output, filter |-> [f EXCEPT !.weights_ = r.weights]]

\* The positions outside `input` that process(input) on f may read.
HeapOf(f, input) ==
    IF f.kind = "SavgolFilter" THEN HeapPositions(f, input) ELSE {}

measurePerformance_warmsUp(f, input, heap, duration) ==
    LET warm == Process(f, input, heap)
        r == Process(warm.filter, input, heap)
    IN  [result |-> <<r.output, duration>>, filter |-> r.filter]

\* `duration` is what the clock measured.
measurePerformance(f, input, heap, duration) ==
    LET r == Process(f, input, heap)
    IN  [result |-> <<r.output, duration>>, filter |-> r.filter]

MeasurePerformance ==
    /\ Idle
    /\ filter # NoFilter
    /\ \E input \in MeasureSignals, duration \in Durations :
           \E heap \in [HeapOf(filter, input) -> Indeterminate] :
               LET r == measurePerformance(filter, input, heap, duration)
                   samples == IF filter.kind = "WienerFilter" THEN Size(input) ELSE 0
               IN  /\ adapted + samples <= MaxSamples
                   /\ adapted' = adapted + samples
                   /\ filter' = r.filter
                   /\ last' = [op |-> "measurePerformance", input |-> input,
                               result |-> r.result]

(* ---- quality metrics ---- *)
\* The metrics are free functions that read no filter state; the caller
\* scores signals while it holds no filter, which covers every call.
Measured(op, a, b, result) ==
    /\ UNCHANGED <<filter, adapted>>
    /\ last' = [op |-> op, a |-> a, b |-> b, result |-> result]

CalculateSNR ==
    /\ Unbuilt
    /\ \E clean \in MetricSignals, noisy \in MetricSignals :
           Measured("calculateSNR", clean, noisy, calculateSNR(clean, noisy))

CalculateMSE ==
    /\ Unbuilt
    /\ \E original \in MetricSignals, processed \in MetricSignals :
           Measured("calculateMSE", original, processed, calculateMSE(original, processed))

CalculateCorrelation ==
    /\ Unbuilt
    /\ \E signal1 \in MetricSignals, signal2 \in MetricSignals :
           Measured("calculateCorrelation", signal1, signal2,
                    calculateCorrelation(signal1, signal2))

\* ~SignalProcessor(): the caller destroys the filter it holds.
Destroy ==
    /\ Idle
    /\ filter # NoFilter
    /\ filter' = NoFilter
    /\ adapted' = 0
    /\ last' = last

\* The caller drops the result of the call that has returned.
Discard ==
    /\ ~Idle
    /\ last' = NoCall
    /\ UNCHANGED <<filter, adapted>>

NextMedian ==
    NewMedianFilter \/ MedianProcess \/ MedianSetWindowSize \/ MeasurePerformance
    \/ Destroy \/ Discard
NextMorphological ==
    NewMorphologicalFilterFlat \/ NewMorphologicalFilter \/ MorphologicalProcess
    \/ MorphologicalSetOperation \/ MorphologicalSetStructuringElement
    \/ MeasurePerformance \/ Destroy \/ Discard
NextOutlier ==
    NewOutlierDetection \/ OutlierProcess \/ OutlierDetect \/ OutlierSetParameters
    \/ MeasurePerformance \/ Destroy \/ Discard
NextRounded ==
    NewOutlierDetection \/ OutlierDetectRounded \/ Destroy \/ Discard
NextSavgol ==
    NewSavgolFilter \/ SavgolProcess \/ SavgolSetParameters \/ MeasurePerformance
    \/ Destroy \/ Discard
NextWiener ==
    NewWienerFilter \/ WienerProcess \/ WienerSetParameters \/ WienerReset
    \/ MeasurePerformance \/ Destroy \/ Discard
NextMetrics == CalculateSNR \/ CalculateMSE \/ CalculateCorrelation \/ Discard

Next ==
    \/ NewMedianFilter \/ MedianProcess \/ MedianSetWindowSize
    \/ NewMorphologicalFilterFlat \/ NewMorphologicalFilter \/ MorphologicalProcess
    \/ MorphologicalSetOperation \/ MorphologicalSetStructuringElement
    \/ NewOutlierDetection \/ OutlierProcess \/ OutlierDetect \/ OutlierSetParameters
    \/ NewSavgolFilter \/ SavgolProcess \/ SavgolSetParameters
    \/ NewWienerFilter \/ WienerProcess \/ WienerSetParameters \/ WienerReset
    \/ MeasurePerformance
    \/ CalculateSNR \/ CalculateMSE \/ CalculateCorrelation
    \/ Destroy \/ Discard

Spec == Init /\ [][Next]_vars
SpecMedian == Init /\ [][NextMedian]_vars
SpecMorphological == Init /\ [][NextMorphological]_vars
SpecOutlier == Init /\ [][NextOutlier]_vars
SpecRounded == Init /\ [][NextRounded]_vars
SpecSavgol == Init /\ [][NextSavgol]_vars
SpecWiener == Init /\ [][NextWiener]_vars
SpecMetrics == Init /\ [][NextMetrics]_vars

(***************************************************************************)
(* Properties.                                                             *)
(***************************************************************************)
Processed == last.op = "process"
ProcessedBy(kind) == Processed /\ filter.kind = kind
IsConstant(x) == \A k \in 1..Len(x) : x[k] = x[1]

\* C1: for each of the five filters and every valid configuration, process
\* returns a signal as long as its input, and the empty signal for the
\* empty input.
C1_ProcessKeepsLength ==
    Processed =>
        /\ Len(last.output) = Len(last.input)
        /\ last.input = <<>> => last.output = <<>>

\* A non-empty signal has been filtered into a different one of the same
\* length (here by the Savitzky-Golay filter, with a window longer than
\* the signal).
C1_Witness ==
    /\ ProcessedBy("SavgolFilter")
    /\ filter.windowSize_ > Len(last.input)
    /\ Len(last.input) >= 2
    /\ last.output # last.input
    /\ Len(last.output) = Len(last.input)

\* The W values input[clamp(i - half + k, 0, N - 1)], k = 0..W-1.
Clamp(j, lo, hi) == IF j < lo THEN lo ELSE IF j > hi THEN hi ELSE j
ReplicatedWindow(input, i, W) ==
    [k \in 1..W |-> At(input, Clamp(i - W \div 2 + k - 1, 0, Len(input) - 1))]

\* m is the middle order statistic of the odd-length sequence w.
IsMiddleOf(m, w) ==
    /\ \E k \in 1..Len(w) : w[k] = m
    /\ Cardinality({k \in 1..Len(w) : RLt(w[k], m)}) <= Len(w) \div 2
    /\ Cardinality({k \in 1..Len(w) : RLt(m, w[k])}) <= Len(w) \div 2

\* C2: for a non-empty input of length N and an odd window W, output[i] of
\* the median filter is the median of the W values
\* input[clamp(i - W/2 + k, 0, N-1)], k = 0..W-1, also when W > N; window 3
\* on [1,2,100,2,1] gives [1,2,2,2,1].
C2_MedianOfReplicatedWindow ==
    (ProcessedBy("MedianFilter") /\ last.input # <<>>) =>
        /\ Len(last.output) = Len(last.input)
        /\ \A i \in 0..(Len(last.input) - 1) :
              IsMiddleOf(At(last.output, i),
                         ReplicatedWindow(last.input, i, filter.windowSize_))
        /\ (filter.windowSize_ = 3 /\ last.input = ExampleMedian) =>
              last.output = <<R(1), R(2), R(2), R(2), R(1)>>

\* Window 3 has run over [1,2,100,2,1].
C2_Witness ==
    /\ ProcessedBy("MedianFilter")
    /\ filter.windowSize_ = 3
    /\ last.input = ExampleMedian
    /\ last.output = <<R(1), R(2), R(2), R(2), R(1)>>

\* C3: the median filter returns a constant signal unchanged, for every
\* length and every valid window size.
C3_MedianKeepsConstant ==
    (ProcessedBy("MedianFilter") /\ IsConstant(last.input)) =>
        last.output = last.input

\* A constant non-zero signal shorter than the window has been filtered.
C3_Witness ==
    /\ ProcessedBy("MedianFilter")
    /\ IsConstant(last.input)
    /\ Len(last.input) >= 2
    /\ last.input[1] # Zero
    /\ filter.windowSize_ > Len(last.input)
    /\ last.output = last.input

IsFlat(element) == \A k \in 1..Len(element) : element[k] = Zero
Pointwise(x, y, Rel(_, _)) == Len(x) = Len(y) /\ \A k \in 1..Len(x) : Rel(x[k], y[k])

\* C4: with a flat (all-zero) structuring element of any size >= 1, for
\* every signal x and index i: erosion(x)[i] <= x[i] <= dilation(x)[i].
C4_ErosionBelowDilationAbove ==
    (ProcessedBy("MorphologicalFilter") /\ IsFlat(filter.structuringElement_)) =>
        /\ filter.operation_ = "EROSION" => Pointwise(last.output, last.input, RLe)
        /\ filter.operation_ = "DILATION" => Pointwise(last.input, last.output, RLe)

\* An erosion by a flat element of even size has lowered a sample.
C4_Witness ==
    /\ ProcessedBy("MorphologicalFilter")
    /\ filter.operation_ = "EROSION"
    /\ IsFlat(filter.structuringElement_)
    /\ Len(filter.structuringElement_) = 2
    /\ \E k \in 1..Len(last.input) : RLt(last.output[k], last.input[k])

\* C5: with a flat structuring element of any size the constructor accepts,
\* opening is idempotent: process(process(x)) = process(x) when the
\* operation is OPENING.
C5_OpeningIdempotent ==
    (/\ ProcessedBy("MorphologicalFilter")
     /\ filter.operation_ = "OPENING"
     /\ IsFlat(filter.structuringElement_)) =>
        MorphologicalFilter_process(filter, last.output) = last.output

\* The call of the example of the specification: MAD-based detection,
\* threshold 3.0, window 5, on [0,0,0,10,0,0,0].
MADExampleCall ==
    /\ filter.kind = "OutlierDetection"
    /\ filter.detectionMethod_ = "MAD_BASED"
    /\ filter.threshold_ = R(3)
    /\ filter.windowSize_ = 5
    /\ last.op \in {"detectOutliers", "process"}
    /\ last.input = ExampleMAD

\* C6 as stated: the MAD-based detector with threshold 3.0 and window 5 on
\* [0,0,0,10,0,0,0] flags index 3 and no other index, and process with
\* linear interpolation returns the signal with index 3 replaced by 0.0.
C6_FlagsTheSpike ==
    MADExampleCall =>
        /\ last.op = "detectOutliers" =>
              last.outliers = [k \in 1..7 |-> k = 4]
        /\ (last.op = "process" /\ filter.interpolationMethod_ = "LINEAR") =>
              last.output = Fill(7, Zero)

\* C6 as amended: on that input every window has MAD zero, so the detector
\* flags no index, and process with linear interpolation returns the input
\* unchanged (index 3 keeps the value 10).
C6_FlagsNothingOnZeroMAD ==
    MADExampleCall =>
        /\ last.op = "detectOutliers" =>
              last.outliers = [k \in 1..7 |-> FALSE]
        /\ (last.op = "process" /\ filter.interpolationMethod_ = "LINEAR") =>
              last.output = ExampleMAD

\* process with linear interpolation has run on the example.
C6_Witness ==
    /\ MADExampleCall
    /\ last.op = "process"
    /\ filter.interpolationMethod_ = "LINEAR"
    /\ At(last.output, 3) = R(10)

Metric(op) == last.op = op
Unscorable == Len(last.a) # Len(last.b) \/ last.a = <<>> \/ last.b = <<>>

\* C7 as stated: when the two signals differ in length or either is empty,
\* calculateMSE and calculateCorrelation return 0.0 and calculateSNR
\* returns 100.0.
C7_NeutralValuesWithSnr100 ==
    /\ (Metric("calculateMSE") /\ Unscorable) => last.result = Value(Zero)
    /\ (Metric("calculateCorrelation") /\ Unscorable) => last.result = Value(Zero)
    /\ (Metric("calculateSNR") /\ Unscorable) => last.result = Value(R(100))

\* C7 as amended: when the two signals differ in length or either is
\* empty, calculateMSE, calculateCorrelation and calculateSNR all return
\* 0.0.
C7_NeutralValuesAllZero ==
    /\ (Metric("calculateMSE") /\ Unscorable) => last.result = Value(Zero)
    /\ (Metric("calculateCorrelation") /\ Unscorable) => last.result = Value(Zero)
    /\ (Metric("calculateSNR") /\ Unscorable) => last.result = Value(Zero)

\* calculateSNR has been called on signals of different, non-zero lengths.
C7_Witness ==
    /\ Metric("calculateSNR")
    /\ Len(last.a) # Len(last.b)
    /\ last.a # <<>> /\ last.b # <<>>
    /\ last.result = Value(Zero)

\* The mean squared difference of two signals of equal non-zero length.
MeanSquaredDifference(x, y) ==
    RDiv(RSum([k \in 1..Len(x) |-> RMul(RSub(y[k], x[k]), RSub(y[k], x[k]))]), R(Len(x)))

\* C8: SNR(clean, clean) = 100.0 for every non-empty clean; more generally
\* SNR returns 100.0 whenever the mean squared difference of the two
\* equal-length signals is below 1e-10.
C8_SnrSentinelBelowNoiseFloor ==
    (Metric("calculateSNR") /\ Len(last.a) = Len(last.b) /\ last.a # <<>>) =>
        /\ last.a = last.b => last.result = Value(R(100))
        /\ RLt(MeanSquaredDifference(last.a, last.b), R(1)) =>
              last.result = Value(R(100))

\* Two different signals whose noise power is below the floor scored 100.
C8_Witness ==
    /\ Metric("calculateSNR")
    /\ Len(last.a) = Len(last.b)
    /\ last.a # last.b
    /\ last.result = Value(R(100))

SumSquaredDeviations(x) ==
    LET m == RDiv(RSum(x), R(Len(x)))
    IN  RSum([k \in 1..Len(x) |-> RMul(RSub(x[k], m), RSub(x[k], m))])

Differences(x) == [k \in 1..(Len(x) - 1) |-> RSub(x[k + 1], x[k])]
RECURSIVE DegreeAtMost(_, _)
\* x holds the values of a polynomial of degree <= K at 0, 1, 2, ...: its
\* (K+1)-th differences vanish.
DegreeAtMost(x, K) ==
    IF K < 0 THEN \A k \in 1..Len(x) : x[k] = Zero
    ELSE DegreeAtMost(Differences(x), K - 1)

\* C10: the Savitzky-Golay filter with window W and order K, applied to
\* the samples of a polynomial of degree <= K, reproduces input[i] at
\* every interior index W/2 <= i <= N-1-W/2.
C10_SavgolReproducesPolynomials ==
    (ProcessedBy("SavgolFilter") /\ DegreeAtMost(last.input, filter.polyOrder_)) =>
        \A i \in (filter.windowSize_ \div 2)..
                 (Len(last.input) - 1 - filter.windowSize_ \div 2) :
            At(last.output, i) = At(last.input, i)

\* A cubic that is no quadratic went through window 5, order 3, and has
\* interior samples.
C10_Witness ==
    /\ ProcessedBy("SavgolFilter")
    /\ filter.windowSize_ = 5
    /\ filter.polyOrder_ = 3
    /\ DegreeAtMost(last.input, 3)
    /\ ~DegreeAtMost(last.input, 2)
    /\ Len(last.input) >= 6
    /\ At(last.output, 2) = At(last.input, 2)
    /\ last.output # last.input

\* C11: across process calls on one WienerFilter with no reset or
\* setParameters in between, each call starts from the weights the
\* preceding call left: a process step runs the LMS loop from the weights
\* the filter holds and stores the weights the loop ends with, and nothing
\* but process, measurePerformance, reset and setParameters changes them;
\* so a repeated call on the same input may return another output.
C11_WeightsPersistAcrossProcess ==
    [][(filter.kind = "WienerFilter" /\ filter'.kind = "WienerFilter") =>
          CASE last'.op = "process" /\ last'.input # <<>> ->
                  /\ last'.output = processLMS(filter, last'.input).output
                  /\ filter'.weights_ = processLMS(filter, last'.input).weights
            [] last'.op \in {"setParameters", "reset", "measurePerformance"} -> TRUE
            [] OTHER -> filter'.weights_ = filter.weights_]_vars

\* A call that was not the first on its instance has returned, and the
\* same input given once more would produce a different output.
C11_Witness ==
    /\ ProcessedBy("WienerFilter")
    /\ last.input # <<>>
    /\ adapted > Len(last.input)
    /\ processLMS(filter, last.input).output # last.output

\* The weight vectors reset() can produce for a filter of the given order.
FreshWeights(filterOrder) ==
    {reset(filterOrder, fractions) : fractions \in [1..filterOrder -> RandFractions]}

\* C12: after an accepted setParameters, or a reset, following any history
\* of process calls, the weight vector has the configured order as its
\* length and holds values reset() draws afresh, so the filter is in a
\* state a constructor call with the same parameters produces.
C12_ReconfigurationResetsWeights ==
    (/\ filter.kind = "WienerFilter"
     /\ last.op \in {"setParameters", "reset"}
     /\ ~last.thrown) =>
        /\ Len(filter.weights_) = filter.filterOrder_
        /\ filter.weights_ \in FreshWeights(filter.filterOrder_)
        /\ last.op = "setParameters" =>
              <<filter.filterOrder_, filter.mu_, filter.lambda_>> = last.args

\* setParameters was accepted on a filter that had already adapted to
\* samples.
C12_Witness ==
    /\ filter.kind = "WienerFilter"
    /\ last.op = "setParameters"
    /\ ~last.thrown
    /\ adapted > 1

PositiveOdd(windowSize) == windowSize > 0 /\ windowSize % 2 = 1

\* The stored configuration of a usable filter is within the documented
\* ranges.
ConfigurationInRange(f) ==
    CASE f.kind = "MedianFilter" -> PositiveOdd(f.windowSize_)
      [] f.kind = "OutlierDetection" ->
            PositiveOdd(f.windowSize_) /\ RLt(Zero, f.threshold_)
      [] f.kind = "SavgolFilter" ->
            PositiveOdd(f.windowSize_) /\ f.polyOrder_ < f.windowSize_
      [] f.kind = "WienerFilter" ->
            /\ f.filterOrder_ > 0
            /\ RLt(Zero, f.mu_) /\ RLt(f.mu_, R(1))
            /\ RLt(Zero, f.lambda_) /\ RLe(f.lambda_, R(1))
      [] f.kind = "MorphologicalFilter" -> f.structuringElement_ # <<>>
      [] OTHER -> TRUE

\* The arguments of a constructor or reconfiguration call are outside the
\* documented ranges.
ArgumentsOutOfRange(call) ==
    CASE call.kind = "MedianFilter" -> ~PositiveOdd(call.args[1])
      [] call.kind = "OutlierDetection" ->
            ~(PositiveOdd(call.args[4]) /\ RLt(Zero, call.args[3]))
      [] call.kind = "SavgolFilter" ->
            ~(PositiveOdd(call.args[1]) /\ call.args[2] < call.args[1])
      [] call.kind = "WienerFilter" /\ call.op # "reset" ->
            ~(/\ call.args[1] > 0
              /\ RLt(Zero, call.args[2]) /\ RLt(call.args[2], R(1))
              /\ RLt(Zero, call.args[3]) /\ RLe(call.args[3], R(1)))
      [] call.kind = "MorphologicalFilter" /\ call.op = "setStructuringElement" ->
            call.args[1] = <<>>
      [] call.kind = "MorphologicalFilter" /\ call.op = "construct" ->
            call.args[2] = <<>>
      [] call.kind = "MorphologicalFilter" /\ call.op = "constructFlat" ->
            call.args[2] = 0
      [] OTHER -> FALSE

Configuring ==
    last.op \in {"construct", "constructFlat", "setWindowSize", "setParameters",
                 "setOperation",
                 "setStructuringElement", "reset"}

\* C13: after any sequence of constructor and reconfiguration calls,
\* accepted or rejected, the stored configuration of every usable filter is
\* in range (median, outlier and Savitzky-Golay windows positive and odd,
\* polynomial order < window, outlier threshold > 0, adaptive order > 0,
\* step size in (0,1), forgetting factor in (0,1], structuring element
\* non-empty), and a call whose arguments are out of range throws.
C13_ConfigurationAlwaysInRange ==
    /\ ConfigurationInRange(filter)
    /\ (Configuring /\ ArgumentsOutOfRange(last)) => last.thrown

Stateless == {"MedianFilter", "MorphologicalFilter", "OutlierDetection", "SavgolFilter"}

\* C15: for the median, morphological, outlier and Savitzky-Golay filters
\* process leaves the filter's configuration unchanged and its output is
\* fixed by the configuration and the input, so every process call with
\* the same input on the same instance returns the same output.
C15_ProcessIsRepeatable ==
    [][(last'.op = "process" /\ filter.kind \in Stateless) =>
          /\ filter' = filter
          /\ \A heap \in [HeapOf(filter', last'.input) -> Indeterminate] :
                 Process(filter', last'.input, heap).output = last'.output]_vars


\* C20: every sample the Savitzky-Golay filter addresses through its
\* reflective extension resolves to an index within 0..N-1 of the input,
\* including for inputs shorter than the half-window.
C20_ReflectionStaysInRange ==
    (ProcessedBy("SavgolFilter") /\ last.input # <<>>) =>
        \A centerIndex \in 0..(Size(last.input) - 1) :
            \A i \in 0..(filter.windowSize_ - 1) :
                resolvedIndex(Size(last.input),
                              centerIndex - (filter.windowSize_ \div 2) + i)
                    \in 0..(Size(last.input) - 1)


\* C16: measurePerformance invokes process exactly once on the filter and
\* returns that call's output as the first component of its result; on a
\* Wiener filter it therefore advances the weights exactly as one process
\* call on the same input does.
C16_MeasureIsOneProcessCall ==
    [][last'.op = "measurePerformance" =>
          /\ \E heap \in [HeapOf(filter, last'.input) -> Indeterminate] :
                 Process(filter, last'.input, heap)
                     = [output |-> last'.result[1], filter |-> filter']
          /\ filter.kind = "WienerFilter" =>
                 filter'.weights_ = processLMS(filter, last'.input).weights]_vars

C16_Witness ==
    /\ last.op = "measurePerformance"
    /\ filter.kind = "WienerFilter"
    /\ last.input # <<>>
    /\ processLMS(filter, last.input).output # last.result[1]


\* The targets the last process call formed, as a function of the sample.
Target(n) == last.desired[n + 1]

Mean2(a, b) == RMul(<<1, 2>>, RAdd(a, b))

\* C17 (as stated): the LMS target at sample n is the average of
\* input[n-1] and input[n+1] when both neighbours exist, and at a boundary
\* (n = 0 or n = N-1) just the single existing neighbour's value; the raw
\* sample input[n] never enters the target.
C17_TargetFromNeighboursOnly ==
    ProcessedBy("WienerFilter") =>
        LET input == last.input
            N == Size(input)
        IN  \A n \in 0..(N - 1) :
                CASE 0 < n /\ n < N - 1 ->
                        Target(n) = Mean2(At(input, n - 1), At(input, n + 1))
                  [] n = 0 /\ N > 1 -> Target(n) = At(input, 1)
                  [] n = N - 1 /\ N > 1 -> Target(n) = At(input, N - 2)
                  [] OTHER -> TRUE

\* C17 (amended): the LMS target is the average of input[n-1] and
\* input[n+1] for 0 < n < N-1; at n = 0 it is the raw sample input[0], and
\* at the last sample n = N-1 > 0 it is the average of input[N-2] and the
\* raw sample input[N-1].
C17_TargetUsesRawSampleAtBoundaries ==
    ProcessedBy("WienerFilter") =>
        LET input == last.input
            N == Size(input)
        IN  \A n \in 0..(N - 1) :
                Target(n) = CASE n = 0 -> At(input, 0)
                              [] n > 0 /\ n = N - 1 ->
                                    Mean2(At(input, N - 2), At(input, N - 1))
                              [] OTHER ->
                                    Mean2(At(input, n - 1), At(input, n + 1))

C17_Witness ==
    /\ ProcessedBy("WienerFilter")
    /\ Size(last.input) >= 3
    /\ At(last.input, 0) # At(last.input, 1)
    /\ At(last.input, Size(last.input) - 2) # At(last.input, Size(last.input) - 1)


\* The delay line of step n written out directly: position i (1-based)
\* holds input[n - (i-1)], or zero before the start of the input.
DelayLine(input, n, P) ==
    [i \in 1..P |-> IF n - (i - 1) >= 0 THEN At(input, n - (i - 1)) ELSE Zero]

\* The weights before step n when the call started from `weights` and
\* every step k < n emitted Dot(weights, delay) and then moved weight i by
\* mu * (target[k] - y[k]) * delay[i].
RECURSIVE WeightsBefore(_, _, _, _, _)
WeightsBefore(weights, input, target, mu, n) ==
    IF n = 0 THEN weights
    ELSE LET before == WeightsBefore(weights, input, target, mu, n - 1)
             delay == DelayLine(input, n - 1, Len(weights))
             y == Dot(before, delay)
         IN  [i \in 1..Len(weights) |->
                 RAdd(before[i], RMul(RMul(mu, RSub(target[n], y)), delay[i]))]

\* C18: in each LMS step n the output y[n] is the dot product of the
\* weights as they were before the step's update with the delay line
\* [input[n], ..., input[n-P+1]] (zero before index 0, all-zero at the
\* start of every call); only afterwards weight i grows by
\* mu * (target - y[n]) * delay[i]; in particular y[0] = weight[0] * input[0].
C18_OutputPrecedesUpdate ==
    [][(last'.op = "process" /\ filter.kind = "WienerFilter") =>
          LET input == last'.input
              N == Size(input)
              P == filter.filterOrder_
              W(n) == WeightsBefore(filter.weights_, input, last'.desired, filter.mu_, n)
          IN  /\ Size(last'.output) = N
              /\ \A n \in 0..(N - 1) :
                     At(last'.output, n) = Dot(W(n), DelayLine(input, n, P))
              /\ filter'.weights_ = W(N)
              /\ N > 0 => At(last'.output, 0)
                              = RMul(filter.weights_[1], At(input, 0))]_vars

C18_Witness ==
    /\ ProcessedBy("WienerFilter")
    /\ filter.filterOrder_ >= 2
    /\ Size(last.input) >= 3
    /\ ~IsNaN(filter.mu_)
    /\ \E n \in 1..(Size(last.input) - 1) : At(last.output, n) # Zero
    /\ processLMS(filter, last.input).output # last.output


AcceptedForgettingFactors ==
    {lambda \in ForgettingFactors : ~WienerArgumentsRejected(1, <<1, 2>>, lambda)}

\* C19: process on the adaptive filter always runs the LMS path, also when
\* called through measurePerformance: its output and the weights it leaves
\* are those of the LMS pass, and they are the same for every forgetting
\* factor the filter could have been given.
C19_ForgettingFactorIsInert ==
    [][(filter.kind = "WienerFilter" /\ last'.op \in {"process", "measurePerformance"}) =>
          \A lambda \in AcceptedForgettingFactors :
              LET r == processLMS([filter EXCEPT !.lambda_ = lambda], last'.input)
                  output == IF last'.op = "process" THEN last'.output
                            ELSE last'.result[1]
              IN  /\ output = r.output
                  /\ filter'.weights_ = r.weights
                  /\ filter'.lambda_ = filter.lambda_]_vars

C19_Witness ==
    /\ filter.kind = "WienerFilter"
    /\ last.op = "measurePerformance"
    /\ filter.lambda_ = <<1, 2>>
    /\ ~IsNaN(filter.mu_)
    /\ Size(last.input) >= 2
    /\ \E n \in 0..(Size(last.input) - 1) : At(last.result[1], n) # Zero
    /\ processLMS(filter, last.input).output # last.result[1]
\* The switch of OutlierDetection::process applied to a given mask.
Interpolated(f, input, outliers) ==
    CASE f.interpolationMethod_ \in {"LINEAR", "SPLINE"} -> interpolateLinear(input, outliers)
      [] f.interpolationMethod_ = "MEDIAN_BASED" ->
            interpolateMedian(input, outliers, f.windowSize_)
      [] f.interpolationMethod_ = "AUTOREGRESSIVE" ->
            interpolateAutoregressive(input, outliers)
      [] OTHER -> input

Flagged(outliers) == {k \in 1..Len(outliers) : outliers[k]}

\* The signals that agree with `input` on every non-flagged sample and hold
\* other values at the flagged ones.
OtherValues == {R(-3), R(5)}
Disguised(input, outliers) ==
    {[k \in 1..Len(input) |-> IF outliers[k] THEN v ELSE input[k]] : v \in OtherValues}

\* C21: for every detection and interpolation strategy process changes
\* only the samples flagged by detectOutliers(input), and every replacement
\* value is computed from non-flagged samples only: it stays the same
\* whatever values the flagged samples hold (a flagged sample without any
\* anchor keeps its own value).
C21_OnlyFlaggedSamplesChange ==
    ProcessedBy("OutlierDetection") =>
        LET input == last.input
            outliers == detectOutliers(filter, input)
        IN  /\ \A k \in 1..Len(input) : ~outliers[k] => last.output[k] = input[k]
            /\ \A other \in Disguised(input, outliers) :
                   LET replaced == Interpolated(filter, other, outliers)
                   IN  \A k \in Flagged(outliers) :
                           \/ replaced[k] = last.output[k]
                           \/ last.output[k] = input[k] /\ replaced[k] = other[k]

\* Two neighbouring samples are flagged and the second one is replaced.
C21_Witness ==
    /\ ProcessedBy("OutlierDetection")
    /\ filter.interpolationMethod_ = "MEDIAN_BASED"
    /\ \E k \in 2..Len(last.input) :
           /\ detectOutliers(filter, last.input)[k - 1]
           /\ detectOutliers(filter, last.input)[k]
           /\ last.output[k] # last.input[k]


\* The replacements computed in strictly decreasing index order, and all
\* at once from the raw input.
RECURSIVE ARBackwards(_, _, _, _)
ARBackwards(result, input, outliers, i) ==
    IF i < 0 THEN result
    ELSE IF ~At(outliers, i) THEN ARBackwards(result, input, outliers, i - 1)
    ELSE ARBackwards([result EXCEPT ![i + 1] = ARValue(result, input, outliers, i)],
                     input, outliers, i - 1)

ARAtOnce(input, outliers) ==
    [k \in 1..Len(input) |->
        IF outliers[k] THEN ARValue(input, input, outliers, k - 1) ELSE input[k]]

AutoregressiveCall ==
    /\ ProcessedBy("OutlierDetection")
    /\ filter.interpolationMethod_ = "AUTOREGRESSIVE"

\* Index i (0-based) is flagged, its predecessor i-1 is a flagged sample
\* whose value the call has changed, and a non-flagged sample lies within
\* arOrder_ places before i (so that i is not left to the fallback).
FollowsSubstitution(i) ==
    LET outliers == detectOutliers(filter, last.input)
    IN  /\ i >= 1
        /\ At(outliers, i) /\ At(outliers, i - 1)
        /\ At(last.output, i - 1) # At(last.input, i - 1)
        /\ \E j \in 1..Min2(ArOrder, i) : ~At(outliers, i - j)

\* C22 (as stated): autoregressive interpolation is order-sensitive: the
\* replacement of a flagged index depends on the values substituted at
\* earlier flagged indices, so where a flagged index with a non-flagged
\* sample in reach follows a substituted one, computing the replacements
\* all at once from the raw input gives another value there.
C22_LaterReplacementsReadEarlierOnes ==
    AutoregressiveCall =>
        \A i \in 0..(Size(last.input) - 1) :
            FollowsSubstitution(i) =>
                At(ARAtOnce(last.input, detectOutliers(filter, last.input)), i)
                    # At(last.output, i)

\* C22 (amended): autoregressive interpolation is not order-sensitive: a
\* replacement reads only non-flagged predecessors, which are never
\* substituted, so computing the replacements in decreasing index order or
\* all at once from the raw input gives the output of process.
C22_ReplacementOrderIsImmaterial ==
    AutoregressiveCall =>
        LET input == last.input
            outliers == detectOutliers(filter, input)
        IN  /\ ARAtOnce(input, outliers) = last.output
            /\ ARBackwards(input, input, outliers, Size(input) - 1) = last.output

C22_Witness ==
    /\ AutoregressiveCall
    /\ \E i \in 2..(Size(last.input) - 1) :
           /\ FollowsSubstitution(i)
           /\ ~At(detectOutliers(filter, last.input), i - 2)
           /\ At(last.output, i) # At(last.input, i)


\* The distances j = i - idx of the non-flagged samples before index i,
\* nearest first.
NormalBefore(outliers, i) ==
    SelectSeq([j \in 1..i |-> j], LAMBDA j : ~At(outliers, i - j))

\* The 1/distance-weighted average of the input at the distances js before i.
InverseDistanceAverage(input, i, js) ==
    RDiv(RSum([t \in 1..Len(js) |-> RDiv(At(input, i - js[t]), R(js[t]))]),
         RSum([t \in 1..Len(js) |-> RDiv(R(1), R(js[t]))]))

\* C23 (as stated): for a flagged index i autoregressive interpolation
\* outputs the 1/distance-weighted average of the up-to-5 most recent
\* preceding samples that are not flagged, and falls back to the linear
\* interpolation value only when i has no non-flagged predecessor at all.
C23_AverageOfNearestNormalPredecessors ==
    AutoregressiveCall =>
        LET input == last.input
            outliers == detectOutliers(filter, input)
        IN  \A i \in 0..(Size(input) - 1) :
                At(outliers, i) =>
                    LET normal == NormalBefore(outliers, i)
                    IN  At(last.output, i) =
                            IF normal = <<>>
                            THEN At(interpolateLinear(input, outliers), i)
                            ELSE InverseDistanceAverage(
                                     input, i, SubSeq(normal, 1, Min2(5, Len(normal))))

\* C23 (amended): for a flagged index i autoregressive interpolation
\* outputs the 1/distance-weighted average of the non-flagged samples among
\* the 5 samples immediately before i (indices i-5 .. i-1), and falls back
\* to the linear interpolation value when none of those is non-flagged,
\* also when an earlier non-flagged sample exists.
C23_AverageOverFivePrecedingPlaces ==
    AutoregressiveCall =>
        LET input == last.input
            outliers == detectOutliers(filter, input)
        IN  \A i \in 0..(Size(input) - 1) :
                At(outliers, i) =>
                    LET near == SelectSeq(NormalBefore(outliers, i), LAMBDA j : j <= 5)
                    IN  At(last.output, i) =
                            IF near = <<>>
                            THEN At(interpolateLinear(input, outliers), i)
                            ELSE InverseDistanceAverage(input, i, near)

\* A flagged index whose five preceding places are all flagged while an
\* earlier sample is not: it takes the linear interpolation value, not the
\* value of that earlier sample.
C23_Witness ==
    /\ AutoregressiveCall
    /\ LET outliers == detectOutliers(filter, last.input)
       IN  \E i \in 6..(Size(last.input) - 1) :
               /\ At(outliers, i)
               /\ \A j \in 1..5 : At(outliers, i - j)
               /\ NormalBefore(outliers, i) # <<>>
               /\ At(last.output, i) # At(last.input, 0)


LinearCall ==
    /\ ProcessedBy("OutlierDetection")
    /\ filter.interpolationMethod_ \in {"LINEAR", "SPLINE"}

\* The non-flagged indices (0-based) on either side of i.
NormalLeftOf(outliers, i) == {j \in 0..(i - 1) : ~At(outliers, j)}
NormalRightOf(outliers, i) == {j \in (i + 1)..(Len(outliers) - 1) : ~At(outliers, j)}
Greatest(S) == CHOOSE x \in S : \A y \in S : y <= x
Least(S) == CHOOSE x \in S : \A y \in S : x <= y
Between(v, a, b) ==
    \/ RLe(a, v) /\ RLe(v, b)
    \/ RLe(b, v) /\ RLe(v, a)

\* The point at index i on the straight line through (l, yl) and (r, yr).
OnTheLine(l, yl, r, yr, i) ==
    RDiv(RAdd(RMul(yl, R(r - i)), RMul(yr, R(i - l))), R(r - l))

\* C24: linear interpolation replaces each flagged index i by the point at
\* i on the straight line (by index) through the nearest non-flagged sample
\* to the left and the nearest to the right, wherever they are in the
\* signal; with a non-flagged sample on one side only it copies that
\* sample; with every sample flagged it leaves the value unchanged.  The
\* result lies between the two anchor values.
C24_LinearBetweenNearestAnchors ==
    LinearCall =>
        LET input == last.input
            outliers == detectOutliers(filter, input)
        IN  \A i \in 0..(Size(input) - 1) :
                At(outliers, i) =>
                    LET lefts == NormalLeftOf(outliers, i)
                        rights == NormalRightOf(outliers, i)
                        out == At(last.output, i)
                    IN  CASE lefts # {} /\ rights # {} ->
                                LET l == Greatest(lefts)
                                    r == Least(rights)
                                IN  /\ out = OnTheLine(l, At(input, l), r, At(input, r), i)
                                    /\ Between(out, At(input, l), At(input, r))
                          [] lefts # {} -> out = At(input, Greatest(lefts))
                          [] rights # {} -> out = At(input, Least(rights))
                          [] OTHER -> out = At(input, i)

\* A flagged sample is put on a sloping line between anchors that are not
\* both next to it.
C24_Witness ==
    /\ LinearCall
    /\ LET outliers == detectOutliers(filter, last.input)
       IN  \E i \in 1..(Size(last.input) - 2) :
               /\ At(outliers, i) /\ At(outliers, i + 1)
               /\ NormalLeftOf(outliers, i) # {}
               /\ NormalRightOf(outliers, i) # {}
               /\ At(last.output, i) # At(last.output, i + 1)


Detected(method) ==
    /\ last.op = "detectOutliers"
    /\ filter.kind = "OutlierDetection"
    /\ filter.detectionMethod_ = method

\* The samples of `input` at the indices within `half` places of i that
\* lie inside the signal, in index order.
ClippedWindow(input, i, half) ==
    LET lo == IF i - half < 0 THEN 0 ELSE i - half
        hi == IF i + half > Size(input) - 1 THEN Size(input) - 1 ELSE i + half
    IN  [t \in 1..(hi - lo + 1) |-> At(input, lo + t - 1)]

\* C25: MAD-based detection flags index i if and only if the clipped,
\* unpadded window around i has at least 3 samples, its MAD is strictly
\* positive and |input[i] - window median| > threshold * MAD; so no index
\* is flagged with window size 1, nor an end sample with window size 3.
C25_MADFlagsExactlyTheDeviants ==
    Detected("MAD_BASED") =>
        LET input == last.input
            N == Size(input)
        IN  /\ Len(last.outliers) = N
            /\ \A i \in 0..(N - 1) :
                   LET window == ClippedWindow(input, i, filter.windowSize_ \div 2)
                       med == median(window)
                       deviations == [t \in 1..Len(window) |-> RAbs(RSub(window[t], med))]
                       madValue == median(deviations)
                   IN  At(last.outliers, i) <=>
                           /\ Len(window) >= 3
                           /\ RLt(Zero, madValue)
                           /\ RLt(RMul(filter.threshold_, madValue),
                                  RAbs(RSub(At(input, i), med)))
            /\ filter.windowSize_ = 1 => \A i \in 0..(N - 1) : ~At(last.outliers, i)
            /\ (filter.windowSize_ = 3 /\ N > 0) =>
                   ~At(last.outliers, 0) /\ ~At(last.outliers, N - 1)

\* With window size 3 an inner sample is flagged while an end sample that
\* deviates from its two-sample window is not.
C25_Witness ==
    /\ Detected("MAD_BASED")
    /\ filter.windowSize_ = 3
    /\ Size(last.input) >= 3
    /\ \E i \in 1..(Size(last.input) - 2) : At(last.outliers, i)
    /\ At(last.input, 0) # At(last.input, 1)


MedianCall ==
    /\ ProcessedBy("OutlierDetection")
    /\ filter.interpolationMethod_ = "MEDIAN_BASED"

\* The non-flagged indices j # i within `reach` places of i, in index order.
NormalAround(outliers, i, reach) ==
    SelectSeq([j \in 1..Len(outliers) |-> j - 1],
              LAMBDA j : j # i /\ j >= i - reach /\ j <= i + reach /\ ~At(outliers, j))

\* C26: median-of-neighbours interpolation replaces a flagged index i by
\* the median of the non-flagged samples at indices j # i within distance
\* min(windowSize/2, 5) of i, clipped to the signal, and leaves input[i]
\* unchanged when there is no such sample.
C26_MedianOfNormalNeighbours ==
    MedianCall =>
        LET input == last.input
            outliers == detectOutliers(filter, input)
            half == filter.windowSize_ \div 2
            reach == IF half < 5 THEN half ELSE 5
        IN  \A i \in 0..(Size(input) - 1) :
                At(outliers, i) =>
                    LET around == NormalAround(outliers, i, reach)
                    IN  At(last.output, i) =
                            IF around = <<>> THEN At(input, i)
                            ELSE median([t \in 1..Len(around) |-> At(input, around[t])])

\* The half-window is above the cap, a non-flagged sample lies more than
\* five places from a flagged one, and the flagged one is replaced.
C26_Witness ==
    /\ MedianCall
    /\ filter.windowSize_ \div 2 > 5
    /\ LET outliers == detectOutliers(filter, last.input)
       IN  \E i \in 6..(Size(last.input) - 1) :
               /\ At(outliers, i)
               /\ ~At(outliers, i - 6)
               /\ At(last.output, i) # At(last.input, i)


\* The indices j # i within `half` places of i that lie inside a signal of
\* N samples, in index order.
NeighbourIndices(N, i, half) ==
    SelectSeq([j \in 1..N |-> j - 1],
              LAMBDA j : j # i /\ j >= i - half /\ j <= i + half)

\* C27: adaptive-local-threshold detection takes the mean and the standard
\* deviation of the clipped window around i with sample i left out, and
\* flags i if and only if there are such neighbours and
\* |input[i] - local mean| > threshold * local stddev, with the flat bound
\* threshold in place of threshold * stddev when the local stddev is zero.
\* (The comparison with the standard deviation is made on the squares.)
C27_AdaptiveFlagsAgainstNeighbours ==
    Detected("ADAPTIVE_THRESHOLD") =>
        LET input == last.input
            N == Size(input)
            threshold == filter.threshold_
        IN  /\ Len(last.outliers) = N
            /\ \A i \in 0..(N - 1) :
                   LET js == NeighbourIndices(N, i, filter.windowSize_ \div 2)
                       count == Len(js)
                       localMean == RDiv(RSum([t \in 1..count |-> At(input, js[t])]),
                                         R(count))
                       squares == [t \in 1..count |->
                                      RMul(RSub(At(input, js[t]), localMean),
                                           RSub(At(input, js[t]), localMean))]
                       localVariance == RDiv(RSum(squares), R(count))
                       deviation == RAbs(RSub(At(input, i), localMean))
                   IN  At(last.outliers, i) <=>
                           /\ count > 0
                           /\ IF localVariance = Zero
                              THEN RLt(threshold, deviation)
                              ELSE RLt(RMul(RMul(threshold, threshold), localVariance),
                                       RMul(deviation, deviation))

\* One sample is flagged against neighbours that differ among themselves,
\* one against equal neighbours, and one with neighbours is not flagged.
C27_Witness ==
    /\ Detected("ADAPTIVE_THRESHOLD")
    /\ filter.windowSize_ = 3
    /\ Size(last.input) >= 4
    /\ \E i \in 1..(Size(last.input) - 2) :
           At(last.outliers, i) /\ At(last.input, i - 1) # At(last.input, i + 1)
    /\ \E i \in 1..(Size(last.input) - 2) :
           At(last.outliers, i) /\ At(last.input, i - 1) = At(last.input, i + 1)
    /\ \E i \in 0..(Size(last.input) - 1) : ~At(last.outliers, i)


Reconfigurations == {"setWindowSize", "setParameters", "setStructuringElement"}

\* C28: a reconfiguration call that is rejected for invalid arguments
\* (MedianFilter::setWindowSize, WienerFilter::setParameters,
\* OutlierDetection::setParameters, SavgolFilter::setParameters,
\* MorphologicalFilter::setStructuringElement) leaves the filter exactly as
\* it was: no parameter changes, the Savitzky-Golay coefficients and the
\* adaptive filter's weights stay as they were.
C28_RejectedReconfigurationChangesNothing ==
    [][(last'.op \in Reconfigurations /\ last'.thrown) =>
          /\ ArgumentsOutOfRange(last')
          /\ filter' = filter]_vars

\* A rejected setParameters on an adaptive filter whose weights have been
\* adapted: they are not those of a fresh filter.
C28_Witness ==
    /\ last.op = "setParameters"
    /\ last.thrown
    /\ filter.kind = "WienerFilter"
    /\ adapted > 0
    /\ ~IsNaN(filter.mu_)
    /\ filter.weights_ \notin FreshWeights(filter.filterOrder_)


\* C29: a constant signal of any length is never flagged at any index by
\* any of the three detection strategies, for every valid threshold and
\* window size, so process returns a constant signal unchanged under every
\* interpolation strategy.
C29_ConstantSignalNeverFlagged ==
    /\ (last.op = "detectOutliers" /\ IsConstant(last.input)) =>
           \A k \in 1..Len(last.input) : ~last.outliers[k]
    /\ (ProcessedBy("OutlierDetection") /\ IsConstant(last.input)) =>
           last.output = last.input


OddFlatCall ==
    /\ ProcessedBy("MorphologicalFilter")
    /\ IsFlat(filter.structuringElement_)
    /\ Len(filter.structuringElement_) % 2 = 1

\* C30: with a flat structuring element of odd size, for every signal x and
\* index i, opening(x)[i] <= x[i] <= closing(x)[i].
C30_OpeningBelowClosingAbove ==
    OddFlatCall =>
        /\ filter.operation_ = "OPENING" =>
              /\ Pointwise(last.output, last.input, RLe)
              /\ Pointwise(last.input, closing(last.input, filter.structuringElement_), RLe)
        /\ filter.operation_ = "CLOSING" =>
              /\ Pointwise(last.input, last.output, RLe)
              /\ Pointwise(dilation(erosion(last.input, filter.structuringElement_),
                                    filter.structuringElement_),
                           last.input, RLe)

\* An opening by a flat element of three entries has lowered a sample that
\* the closing of the same signal leaves as it is.
C30_Witness ==
    /\ OddFlatCall
    /\ filter.operation_ = "OPENING"
    /\ Len(filter.structuringElement_) = 3
    /\ \E k \in 1..Len(last.input) :
           /\ RLt(last.output[k], last.input[k])
           /\ closing(last.input, filter.structuringElement_)[k] = last.input[k]

====
